---- MODULE Spec2Model ----
(***************************************************************************)
(* Model of the AuditRegistry contract (src/AuditRegistry.sol), of the     *)
(* ScamDetector contract (src/unnamed/part_002), of the TokenAnalyzer      *)
(* contract (src/README.md) and of the audit service of the front end      *)
(* that reads and writes them (src/unnamed/part_000).                      *)
(*                                                                         *)
(* A transaction is one atomic step.  A transaction that hits a failing    *)
(* require reverts: the contract's storage and its event log are left as   *)
(* they were, and only the outcome of the call (variable last) tells that  *)
(* it was made.                                                            *)
(*                                                                         *)
(* The contract inherits Ownable and ReentrancyGuard of OpenZeppelin 4.x   *)
(* (the import paths of lines 4-5): owner() is the deployer until          *)
(* transferOwnership or renounceOwnership changes it, and nonReentrant     *)
(* holds _status at ENTERED for the duration of the body only.             *)
(*                                                                         *)
(* block.timestamp is positive and never decreases; transactions of one    *)
(* block share it.                                                         *)
(***************************************************************************)
EXTENDS Integers, Sequences, FiniteSets, TLC

\* ------------------------------------------------------------------ bounds
\* Addresses are 0..NumAddr; 0 is address(0).
NumAddr == 2
\* block.timestamp ranges over 1..MaxTime.
MaxTime == 2
\* At most MaxEvents transactions that emit an event are explored.
MaxEvents == 2

ZeroAddress == 0
Address == 0..NumAddr
\* msg.sender is never address(0): nobody holds its key.  The auditors granted
\* and revoked are drawn from the same accounts.
Senders == Address \ {ZeroAddress}
\* The account that deploys the contract.
Deployer == 1

\* Inputs of submitAuditResult, <<riskScore, isScam, isHoneypot, ipfsHash>>:
\* two that differ in every field, the largest score accepted, and the
\* smallest score rejected.
AuditSamples ==
    {<<57, TRUE, FALSE, "QmA">>, <<100, FALSE, TRUE, "QmB">>, <<101, TRUE, TRUE, "QmA">>}
\* Inputs of updateTokenMetrics:
\* <<totalTransactions, uniqueHolders, liquidityUSD, liquidityLocked>>.
MetricSamples == {<<10, 5, 1000, TRUE>>, <<20, 7, 0, FALSE>>}

\* ------------------------------------------------------------------ state
VARIABLES
    owner,               \* Ownable._owner
    status,              \* ReentrancyGuard._status
    auditRecords,        \* mapping(address => AuditRecord)
    tokenMetrics,        \* mapping(address => TokenMetrics)
    authorizedAuditors,  \* mapping(address => bool)
    auditCount,          \* mapping(address => uint256)
    events,              \* the AuditCompleted / TokenMetricsUpdated log
    now,                 \* block.timestamp of the current block
    last,                \* the latest transaction: function, msg.sender, outcome
    frames               \* the calls of the registry's writing functions that
                         \* the transaction in execution has entered and not left

\* ScamDetector's storage, the chain it reads, and its latest transaction.
VARIABLES
    scamOwner,           \* Ownable._owner of ScamDetector
    scamAnalysis,        \* mapping(address => ScamFlags)
    knownScams,          \* mapping(address => bool)
    trustedTokens,       \* mapping(address => bool)
    hasCode,             \* address => whether extcodesize(address) > 0
    ownerCall,           \* address => what a call of owner() on it does
    addrHash,            \* address => uint256(keccak256(address)) % HashModulus
    mintHash,            \* address => timestamp => uint256(keccak256(address, timestamp)) % 7
    ownerHash,           \* address => uint256(keccak256(address, owner())) % 6
    scamLast             \* the latest transaction: function, msg.sender, token,
                         \* outcome, value returned, events emitted

\* What a transaction can change and a revert restores.
registry == <<owner, status, auditRecords, tokenMetrics, authorizedAuditors,
              auditCount, events>>
\* ScamDetector's storage, and the chain state it only reads.
detector == <<scamOwner, scamAnalysis, knownScams, trustedTokens>>
chain == <<hasCode, ownerCall, addrHash, mintHash, ownerHash>>
scamVars == <<detector, chain, scamLast>>

\* TokenAnalyzer's storage, the token functions it reads, and its latest
\* transaction.
VARIABLES
    analyzerOwner,       \* Ownable._owner of TokenAnalyzer
    analyzerStatus,      \* ReentrancyGuard._status of TokenAnalyzer
    analyzedTokens,      \* mapping(address => TokenInfo)
    securityAnalysis,    \* mapping(address => SecurityFlags)
    tokenReads,          \* address => what name(), symbol(), decimals() and
                         \* totalSupply() on it do
    analyzerLast         \* the latest transaction: function, msg.sender, input,
                         \* outcome, values returned, events emitted

analyzer == <<analyzerOwner, analyzerStatus, analyzedTokens, securityAnalysis>>
analyzerVars == <<analyzer, tokenReads, analyzerLast>>

\* The audit service of the front end: its configuration, and the position
\* and the locals of the one call of auditToken followed.
VARIABLES
    signer,              \* BlockchainService.signer: address(0) for null
    features,            \* environment: the feature toggles
    providerConnection,  \* whether provider.connection is defined
    unresponsive,        \* the remote calls that never answer
    pc,                  \* the await auditToken is at
    contractAddress,     \* auditToken: the address it was called with
    onChain,             \* analyzeTokenOnChain: tokenInfo, scamAnalysis, isAudited
    blockchainData,      \* auditToken: what step 1 left
    tokenInfo,           \* auditToken: what getEnhancedTokenInfo returned
    security,            \* auditToken: what performSecurityAnalysis returned
    liquidityInfo,       \* auditToken: liquidity, what analyzeLiquidity returned
    transactionData,     \* auditToken: transactions, what analyzeTransactions returned
    auditResult,         \* what auditToken returns
    calls                \* the token reads and the transactions issued so far

service == <<signer, features, providerConnection, unresponsive>>
auditRun == <<pc, contractAddress, onChain, blockchainData, tokenInfo, security, liquidityInfo,
              transactionData, auditResult, calls>>
pipelineVars == <<service, auditRun>>

\* What the transactions of one contract leave alone in the others.
outsideRegistry == <<frames, scamVars, analyzerVars, pipelineVars>>
outsideDetector == <<registry, last, frames, analyzerVars, pipelineVars>>
outsideAnalyzer == <<registry, last, frames, detector, addrHash, mintHash, ownerHash, scamLast,
                     pipelineVars>>

vars == <<owner, status, auditRecords, tokenMetrics, authorizedAuditors,
          auditCount, events, now, last, frames, scamVars, analyzerVars, pipelineVars>>

\* ReentrancyGuard._status values.
NOT_ENTERED == "NOT_ENTERED"
ENTERED == "ENTERED"

\* Outcomes of a call: OK, or the message of the require that reverted it.
OK == "ok"
ErrNotAuthorized == "Not authorized auditor"
ErrInvalidToken == "Invalid token address"
ErrRiskScore == "Risk score must be <= 100"
ErrNotOwner == "Ownable: caller is not the owner"
ErrNewOwnerZero == "Ownable: new owner is the zero address"
ErrReentrant == "ReentrancyGuard: reentrant call"

\* The value of a mapping slot that was never written.
ZeroAuditRecord ==
    [tokenAddress |-> ZeroAddress, riskScore |-> 0, isScam |-> FALSE,
     isHoneypot |-> FALSE, auditTimestamp |-> 0, auditor |-> ZeroAddress,
     ipfsHash |-> ""]

ZeroTokenMetrics ==
    [totalTransactions |-> 0, uniqueHolders |-> 0, liquidityUSD |-> 0,
     liquidityLocked |-> FALSE, lastUpdated |-> 0]

Call(op, sender, result) == [op |-> op, sender |-> sender, result |-> result]

NoCall == Call("none", ZeroAddress, OK)

\* ------------------------------------------------------------------ modifiers
\* Mutant: the owner is not let through unless explicitly authorized.
onlyAuthorizedAuditor_NoOwner(sender) == authorizedAuditors[sender]

\* modifier onlyAuthorizedAuditor: the condition of its require
onlyAuthorizedAuditor(sender) ==
    authorizedAuditors[sender] \/ sender = owner

\* Ownable.onlyOwner: the condition of its require
onlyOwner(sender) == sender = owner

\* ------------------------------------------------------------------ views
getAuditRecord(tokenAddress) == auditRecords[tokenAddress]

getTokenMetrics(tokenAddress) == tokenMetrics[tokenAddress]

\* Mutant: the comparison accepts a zero timestamp.
isTokenAudited_GreaterOrEqual(tokenAddress) ==
    auditRecords[tokenAddress].auditTimestamp >= 0

\* Mutant: an audit counts only while its auditor is still authorized.
isTokenAudited_WhileAuthorized(tokenAddress) ==
    /\ auditRecords[tokenAddress].auditTimestamp > 0
    /\ \/ authorizedAuditors[auditRecords[tokenAddress].auditor]
       \/ auditRecords[tokenAddress].auditor = owner

isTokenAudited(tokenAddress) == auditRecords[tokenAddress].auditTimestamp > 0

getAuditorStats(auditor) == auditCount[auditor]

\* ------------------------------------------------------------------ events
AuditCompleted(token, auditor, riskScore, isScam, timestamp) ==
    [name |-> "AuditCompleted", token |-> token, auditor |-> auditor,
     riskScore |-> riskScore, isScam |-> isScam, timestamp |-> timestamp]

TokenMetricsUpdated(token, transactions, holders, liquidity) ==
    [name |-> "TokenMetricsUpdated", token |-> token,
     transactions |-> transactions, holders |-> holders, liquidity |-> liquidity]

\* ------------------------------------------------------------------ ScamDetector: values
\* The addresses ScamDetector is asked about, and block.timestamp's range.
Tokens == Address \ {ZeroAddress}
Times == 1..MaxTime

\* The one address that may hold a token contract; every other account is
\* externally owned and has no code.
TokenContract == NumAddr

\* The value of a ScamFlags memory variable before any assignment, and of a
\* scamAnalysis slot that was never written.
ZeroScamFlags ==
    [hasHiddenMint |-> FALSE, hasBlacklist |-> FALSE, hasHighTax |-> FALSE,
     hasLiquidityDrain |-> FALSE, hasOwnershipIssues |-> FALSE,
     isHoneypot |-> FALSE, riskScore |-> 0]

\* The revert, without a message, of a call whose return data cannot be
\* decoded: owner() called on an address without code is not caught by the
\* try statement.
ErrCallFailed == "revert"

ScamDetected(token, reason, timestamp) ==
    [name |-> "ScamDetected", token |-> token, reason |-> reason,
     timestamp |-> timestamp]

TokenVerified(token, timestamp) ==
    [name |-> "TokenVerified", token |-> token, timestamp |-> timestamp]

ScamCall(op, sender, token, result, flags, logs) ==
    [op |-> op, sender |-> sender, token |-> token, result |-> result,
     flags |-> flags, logs |-> logs]

NoScamCall == ScamCall("none", ZeroAddress, ZeroAddress, OK, ZeroScamFlags, <<>>)

\* What the external call owner() on an address does: it reverts (written as
\* an integer that is no address), or it returns an address.
Reverts == -1
OwnerOutcomes == {Reverts} \cup Address

\* keccak256 is modelled by the residues the code takes of it.  The hash of the
\* address alone is kept modulo 40, which fixes its residues modulo 10, 5 and
\* 8: 0 gives all three zero, 10 the first two, 5 only modulo 5, 8 only modulo
\* 8, 1 none (one of 10 and 8 zero forces modulo 5 or all three).
AddrHashSamples == {0, 1, 5, 8, 10}
\* keccak256(address, timestamp) modulo 7 as a function of the timestamp: zero
\* in every other block, starting with the first or with the second.
MintHashSamples == {[ts \in Times |-> (ts + k) % 2] : k \in {0, 1}}
\* keccak256(address, owner) modulo 6: zero or not.
OwnerHashSamples == {0, 1}

\* An account without code: the hashes are not read by any call that returns.
NoCodeProfile ==
    [hasCode |-> FALSE, ownerCall |-> Reverts, addrHash |-> 1,
     mintHash |-> [ts \in Times |-> 1], ownerHash |-> 1]

\* The token contracts analysed: those owned by an externally owned account,
\* with every sampled hash, and those whose owner() reverts, returns address(0)
\* or returns a contract, where the hash with the owner is not read.
CodeProfiles ==
    {[hasCode |-> TRUE, ownerCall |-> Deployer, addrHash |-> h, mintHash |-> f,
      ownerHash |-> g] :
        h \in AddrHashSamples, f \in MintHashSamples, g \in OwnerHashSamples}
    \cup
    {[hasCode |-> TRUE, ownerCall |-> o, addrHash |-> 1, mintHash |-> f,
      ownerHash |-> 1] :
        o \in {Reverts, ZeroAddress, TokenContract}, f \in MintHashSamples}

TokenProfiles == {NoCodeProfile} \cup CodeProfiles

\* The chain on which TokenContract has profile p.
ChainIs(p) ==
    /\ hasCode = [a \in Address |-> a = TokenContract /\ p.hasCode]
    /\ ownerCall = [a \in Address |-> IF a = TokenContract THEN p.ownerCall ELSE Reverts]
    /\ addrHash = [a \in Address |-> IF a = TokenContract THEN p.addrHash ELSE 1]
    /\ mintHash = [a \in Address |->
                      IF a = TokenContract THEN p.mintHash ELSE [ts \in Times |-> 1]]
    /\ ownerHash = [a \in Address |-> IF a = TokenContract THEN p.ownerHash ELSE 1]

\* ------------------------------------------------------------------ TokenAnalyzer: values
\* The 20 bytes of a (sampled) address, high byte first; address(0) is all
\* zero.
AddressBytes(a) == [i \in 1..20 |-> (a * (37 + 11 * i)) % 256]

\* bytes32(uint256(uint160(addr))), indexed from 0: the address right-aligned.
AddressWord(addr) == [i \in 0..31 |-> IF i < 12 THEN 0 ELSE AddressBytes(addr)[i - 11]]

alphabet == <<"0", "1", "2", "3", "4", "5", "6", "7", "8", "9", "a", "b", "c", "d", "e", "f">>

\* The two characters written for value[i + 12]: high nibble, low nibble.
HexPair(value, i) == alphabet[(value[i + 12] \div 16) + 1] \o alphabet[(value[i + 12] % 16) + 1]

RECURSIVE HexPairs(_, _, _)
\* The characters written by iterations i .. n - 1 of the loop.
HexPairs(value, i, n) == IF i >= n THEN "" ELSE HexPair(value, i) \o HexPairs(value, i + 1, n)

addressToString(addr) == "0x" \o HexPairs(AddressWord(addr), 0, 20)

addressToShortString(addr) == HexPairs(AddressWord(addr), 0, 3)

\* uint256 amounts are written as their decimal numerals.
FallbackDecimals == 18
FallbackTotalSupply == "1000000000000000000000000"
\* address(0xf39Fd6e51aad88F6F4ce6aB8827279cffFb92266), the owner stored when
\* owner() fails: the first account, which deploys the contracts.
FallbackOwner == Deployer

ZeroTokenInfo ==
    [name |-> "", symbol |-> "", decimals |-> 0, totalSupply |-> "0",
     owner |-> ZeroAddress, exists |-> FALSE]

ZeroSecurityFlags ==
    [hasOwner |-> FALSE, hasMintFunction |-> FALSE, hasBurnFunction |-> FALSE,
     hasPauseFunction |-> FALSE, hasBlacklistFunction |-> FALSE,
     ownershipRenounced |-> FALSE]

TokenAnalyzed(token, analyzer_, timestamp) ==
    [name |-> "TokenAnalyzed", token |-> token, analyzer |-> analyzer_,
     timestamp |-> timestamp]

ErrTooManyTokens == "Too many tokens to analyze at once"

\* The four metadata functions of IERC20Extended.
MetadataReads == {"name", "symbol", "decimals", "totalSupply"}

\* What the token contract answers, and which of its functions revert.
ReadProfile(failing, decimals) ==
    [failing |-> failing, name |-> "Token", symbol |-> "TKN",
     decimals |-> decimals, totalSupply |-> "21000000"]

\* The read behaviours sampled: each function both answers and reverts in some
\* profile, alone and together with the others; decimals is 0 or 6.
ReadProfiles ==
    {ReadProfile(f, d) :
        f \in {{}, MetadataReads, {"name", "decimals"}, {"symbol", "totalSupply"}},
        d \in {0, 6}}

ReadsAre(r) == tokenReads = [a \in Address |-> r]

AnalyzerCall(op, sender, input, result, returned, logs) ==
    [op |-> op, sender |-> sender, input |-> input, result |-> result,
     returned |-> returned, logs |-> logs]

NoAnalyzerCall == AnalyzerCall("none", ZeroAddress, <<>>, OK, <<>>, <<>>)

\* ------------------------------------------------------------------ audit service: values
\* contractAddress, the string auditToken is called with: the address in
\* hexadecimal.
AddressString(a) == addressToString(a)

digits == <<"0", "1", "2", "3", "4", "5", "6", "7", "8", "9">>

RECURSIVE toString(_)
\* BigInt.prototype.toString of a non-negative integer: its decimal numeral.
toString(n) == IF n < 10 THEN digits[n + 1] ELSE toString(n \div 10) \o digits[(n % 10) + 1]

\* The value of a decimal digit character.
DigitValue(ch) == CHOOSE d \in 0..9 : digits[d + 1] = ch

IsDigit(ch) == \E d \in 0..9 : digits[d + 1] = ch

RECURSIVE ParseDigits(_, _)
\* parseInt on the rest of a string whose digits so far have value n: it stops
\* at the first character that is no digit.
ParseDigits(str, n) ==
    IF str = "" \/ ~IsDigit(Head(str)) THEN n
    ELSE ParseDigits(Tail(str), 10 * n + DigitValue(Head(str)))

\* parseInt(str) || 0: NaN, for a string that begins with no digit, and 0 are
\* both falsy.
parseIntOrZero(str) == IF str = "" \/ ~IsDigit(Head(str)) THEN 0 ELSE ParseDigits(str, 0)

\* The fallbacks of getEnhancedTokenInfo.
DefaultTotalSupply == "1000000000"
DefaultDecimals == 18

\* The scamAnalysis object analyzeTokenOnChain returns: the flags, and the
\* score as a string.
ScamView(flags) ==
    [hasHiddenMint |-> flags.hasHiddenMint, hasBlacklist |-> flags.hasBlacklist,
     hasHighTax |-> flags.hasHighTax, hasLiquidityDrain |-> flags.hasLiquidityDrain,
     hasOwnershipIssues |-> flags.hasOwnershipIssues,
     isHoneypot |-> flags.isHoneypot, riskScore |-> toString(flags.riskScore)]

\* The locals of analyzeTokenOnChain before its first read.
NoOnChain ==
    [tokenInfo |-> ZeroTokenInfo, scamAnalysis |-> ZeroScamFlags, isAudited |-> FALSE]

\* blockchainData = null.
NullBlockchainData ==
    [isNull |-> TRUE, tokenInfo |-> ZeroTokenInfo, scamAnalysis |-> ScamView(ZeroScamFlags),
     auditRecord |-> ZeroAuditRecord, isAudited |-> FALSE]

\* The object analyzeTokenOnChain returns.
OnChainData(info, flags, audited, record) ==
    [isNull |-> FALSE,
     tokenInfo |-> [name |-> info.name, symbol |-> info.symbol,
                    decimals |-> info.decimals, totalSupply |-> info.totalSupply,
                    owner |-> info.owner, exists |-> info.exists],
     scamAnalysis |-> ScamView(flags), auditRecord |-> record, isAudited |-> audited]

\* The TokenInfo of the front end, without the fields drawn from Math.random
\* and the clock that no later step reads; tier is the branch of
\* getEnhancedTokenInfo that built it.
EnhancedInfo(tier, name, symbol, totalSupply, decimals, tokenOwner) ==
    [tier |-> tier, name |-> name, symbol |-> symbol, totalSupply |-> totalSupply,
     decimals |-> decimals, owner |-> tokenOwner]

NoTokenInfo == EnhancedInfo("none", "", "", "", 0, ZeroAddress)

\* The titles of the issues, in the order performSecurityAnalysis pushes them.
HeuristicIssues ==
    <<"Hidden Mint Function", "Blacklist Function", "High Tax Functions",
      "Liquidity Drain Risk", "Ownership Issues">>
possibleIssues == <<"High Tax Functions", "Blacklist Function", "Pausable Contract">>

NoSecurity ==
    [riskScore |-> 0, riskLevel |-> "", issues |-> <<>>, honeypotStatus |-> FALSE,
     canSell |-> FALSE, source |-> "none"]

\* Math.floor(Math.random() * 100), Math.floor(Math.random() * 3) + 1 and
\* Math.random() > 0.2 as drawn by one call of performSecurityAnalysis: every
\* score next to a threshold of riskLevel, every number of issues, both
\* outcomes of the comparison.
RandomDraws ==
    {<<0, 1, TRUE>>, <<24, 2, FALSE>>, <<25, 3, TRUE>>, <<49, 1, FALSE>>,
     <<50, 2, TRUE>>, <<74, 3, FALSE>>, <<75, 1, TRUE>>, <<99, 2, FALSE>>}

\* The LiquidityInfo and the TransactionData of the front end, without the
\* fields that no later step reads.
NoLiquidity == [totalLiquidity |-> "", liquidityLocked |-> FALSE]
NoTransactions == [totalTransactions |-> 0, uniqueHolders |-> 0]

\* The sum of the liquidity of the two pairs and Math.random() > 0.4, as drawn
\* by analyzeLiquidity.
LiquidityDraws == {<<150000, FALSE>>, <<400000, TRUE>>}

\* totalTransactions, uniqueHolders, liquidityUSD and Math.random() > 0.5, as
\* drawn by analyzeTransactions.
TransactionDraws == {<<10000, 1000, 100000, TRUE>>, <<10000, 1000, 400000, TRUE>>}

\* What an optional field of AuditResult holds: undefined, the value computed
\* from the remote service, or the fallback value of the service.
Absent == "absent"
Fetched == "fetched"
Fallback == "fallback"

NoAuditResult ==
    [returned |-> FALSE, thrown |-> FALSE, tokenInfo |-> NoTokenInfo,
     security |-> NoSecurity, liquidity |-> NoLiquidity,
     transactions |-> NoTransactions, aiPrediction |-> Absent, socialSentiment |-> Absent,
     vulnerabilityAnalysis |-> Absent]

ErrWalletNotConnected == "Wallet not connected"

\* Nothing issued yet: no read of a token function, no transaction.
NoCalls ==
    [name |-> 0, symbol |-> 0, totalSupply |-> 0, decimals |-> 0,
     updateTokenMetrics |-> 0, submitAuditResult |-> 0]

\* ------------------------------------------------------------------ constructor
\* AuditRegistry's constructor.
RegistryDeployed ==
    /\ owner = Deployer
    /\ status = NOT_ENTERED
    /\ auditRecords = [t \in Address |-> ZeroAuditRecord]
    /\ tokenMetrics = [t \in Address |-> ZeroTokenMetrics]
    /\ authorizedAuditors = [a \in Address |-> a = Deployer]
    /\ auditCount = [a \in Address |-> 0]
    /\ events = <<>>
    /\ now = 1
    /\ last = NoCall
    /\ frames = <<>>

\* ScamDetector's implicit constructor: Ownable's, and empty mappings.
ScamDetectorDeployed ==
    /\ scamOwner = Deployer
    /\ scamAnalysis = [t \in Address |-> ZeroScamFlags]
    /\ knownScams = [t \in Address |-> FALSE]
    /\ trustedTokens = [t \in Address |-> FALSE]
    /\ scamLast = NoScamCall

\* TokenAnalyzer's constructor: Ownable's and ReentrancyGuard's, empty mappings.
TokenAnalyzerDeployed ==
    /\ analyzerOwner = Deployer
    /\ analyzerStatus = NOT_ENTERED
    /\ analyzedTokens = [t \in Address |-> ZeroTokenInfo]
    /\ securityAnalysis = [t \in Address |-> ZeroSecurityFlags]
    /\ analyzerLast = NoAnalyzerCall

\* The audit service before auditToken is called.
AuditServiceIdle ==
    /\ pc = "idle"
    /\ contractAddress = ZeroAddress
    /\ onChain = NoOnChain
    /\ blockchainData = NullBlockchainData
    /\ tokenInfo = NoTokenInfo
    /\ security = NoSecurity
    /\ liquidityInfo = NoLiquidity
    /\ transactionData = NoTransactions
    /\ auditResult = NoAuditResult
    /\ calls = NoCalls

\* The front end as configured by default: no wallet connected, both features
\* off.
AuditServiceUnused ==
    /\ AuditServiceIdle
    /\ signer = ZeroAddress
    /\ features = [enableAiRiskPrediction |-> FALSE, enableSocialSentiment |-> FALSE]
    /\ providerConnection = FALSE
    /\ unresponsive = {}

\* The contracts deployed, on a chain without token contracts.
Init ==
    /\ RegistryDeployed
    /\ ScamDetectorDeployed
    /\ TokenAnalyzerDeployed
    /\ AuditServiceUnused
    /\ ChainIs(NoCodeProfile)
    /\ ReadsAre(ReadProfile({}, 6))

\* The contracts deployed, on a chain with any of the token contracts.
ScamInit ==
    /\ RegistryDeployed
    /\ ScamDetectorDeployed
    /\ TokenAnalyzerDeployed
    /\ AuditServiceUnused
    /\ \E p \in TokenProfiles : ChainIs(p)
    /\ ReadsAre(ReadProfile({}, 6))

\* ------------------------------------------------------------------ transactions
\* Mutant: guarded by onlyAuthorizedAuditor instead of onlyOwner.
addAuthorizedAuditor_AuditorGuard(sender, auditor) ==
    LET result == IF authorizedAuditors[sender] \/ sender = owner
                  THEN OK ELSE ErrNotOwner IN
    /\ UNCHANGED outsideRegistry
    /\ last' = Call("addAuthorizedAuditor", sender, result)
    /\ IF result = OK
       THEN /\ authorizedAuditors' = [authorizedAuditors EXCEPT ![auditor] = TRUE]
            /\ UNCHANGED <<owner, status, auditRecords, tokenMetrics, auditCount,
                           events, now>>
       ELSE UNCHANGED <<registry, now>>

\* Mutant: a grant flips the auditor's flag instead of setting it.
addAuthorizedAuditor_Toggle(sender, auditor) ==
    LET result == IF onlyOwner(sender) THEN OK ELSE ErrNotOwner IN
    /\ UNCHANGED outsideRegistry
    /\ last' = Call("addAuthorizedAuditor", sender, result)
    /\ IF result = OK
       THEN /\ authorizedAuditors' =
                    [authorizedAuditors EXCEPT ![auditor] = ~authorizedAuditors[auditor]]
            /\ UNCHANGED <<owner, status, auditRecords, tokenMetrics, auditCount,
                           events, now>>
       ELSE UNCHANGED <<registry, now>>

addAuthorizedAuditor(sender, auditor) ==
    LET result == IF onlyOwner(sender) THEN OK ELSE ErrNotOwner IN
    /\ UNCHANGED outsideRegistry
    /\ last' = Call("addAuthorizedAuditor", sender, result)
    /\ IF result = OK
       THEN /\ authorizedAuditors' = [authorizedAuditors EXCEPT ![auditor] = TRUE]
            /\ UNCHANGED <<owner, status, auditRecords, tokenMetrics, auditCount,
                           events, now>>
       ELSE UNCHANGED <<registry, now>>

\* Mutant: revoking an auditor also clears its statistics.
removeAuthorizedAuditor_ResetCount(sender, auditor) ==
    LET result == IF onlyOwner(sender) THEN OK ELSE ErrNotOwner IN
    /\ UNCHANGED outsideRegistry
    /\ last' = Call("removeAuthorizedAuditor", sender, result)
    /\ IF result = OK
       THEN /\ authorizedAuditors' = [authorizedAuditors EXCEPT ![auditor] = FALSE]
            /\ auditCount' = [auditCount EXCEPT ![auditor] = 0]
            /\ UNCHANGED <<owner, status, auditRecords, tokenMetrics, events, now>>
       ELSE UNCHANGED <<registry, now>>

removeAuthorizedAuditor(sender, auditor) ==
    LET result == IF onlyOwner(sender) THEN OK ELSE ErrNotOwner IN
    /\ UNCHANGED outsideRegistry
    /\ last' = Call("removeAuthorizedAuditor", sender, result)
    /\ IF result = OK
       THEN /\ authorizedAuditors' = [authorizedAuditors EXCEPT ![auditor] = FALSE]
            /\ UNCHANGED <<owner, status, auditRecords, tokenMetrics, auditCount,
                           events, now>>
       ELSE UNCHANGED <<registry, now>>

\* Mutant: the onlyAuthorizedAuditor modifier left off submitAuditResult.
submitAuditResultCheck_NoModifier(sender, tokenAddress, riskScore) ==
    IF status = ENTERED THEN ErrReentrant
    ELSE IF ~(tokenAddress # ZeroAddress) THEN ErrInvalidToken
    ELSE IF ~(riskScore <= 100) THEN ErrRiskScore
    ELSE OK

\* Mutant: the score limit off by one.
submitAuditResultCheck_OffByOne(sender, tokenAddress, riskScore) ==
    IF ~(authorizedAuditors[sender] \/ sender = owner) THEN ErrNotAuthorized
    ELSE IF status = ENTERED THEN ErrReentrant
    ELSE IF ~(tokenAddress # ZeroAddress) THEN ErrInvalidToken
    ELSE IF ~(riskScore <= 101) THEN ErrRiskScore
    ELSE OK

\* Mutant: the zero-address require left out.
submitAuditResultCheck_NoTokenCheck(sender, tokenAddress, riskScore) ==
    IF ~(authorizedAuditors[sender] \/ sender = owner) THEN ErrNotAuthorized
    ELSE IF status = ENTERED THEN ErrReentrant
    ELSE IF ~(riskScore <= 100) THEN ErrRiskScore
    ELSE OK

\* The require that stops submitAuditResult, in the order the modifiers and the
\* body evaluate them; OK when none does.
submitAuditResultCheck(sender, tokenAddress, riskScore) ==
    IF ~onlyAuthorizedAuditor(sender) THEN ErrNotAuthorized
    ELSE IF status = ENTERED THEN ErrReentrant
    ELSE IF ~(tokenAddress # ZeroAddress) THEN ErrInvalidToken
    ELSE IF ~(riskScore <= 100) THEN ErrRiskScore
    ELSE OK

\* Mutant: a resubmission keeps the first auditor of the token.
NewAuditRecord_KeepAuditor(sender, tokenAddress, riskScore, isScam, isHoneypot, ipfsHash) ==
    [tokenAddress |-> tokenAddress, riskScore |-> riskScore, isScam |-> isScam,
     isHoneypot |-> isHoneypot, auditTimestamp |-> now,
     auditor |-> IF auditRecords[tokenAddress].auditTimestamp > 0
                 THEN auditRecords[tokenAddress].auditor ELSE sender,
     ipfsHash |-> ipfsHash]

\* The struct submitAuditResult stores.
NewAuditRecord(sender, tokenAddress, riskScore, isScam, isHoneypot, ipfsHash) ==
    [tokenAddress |-> tokenAddress, riskScore |-> riskScore, isScam |-> isScam,
     isHoneypot |-> isHoneypot, auditTimestamp |-> now, auditor |-> sender,
     ipfsHash |-> ipfsHash]

\* Mutant: the event is emitted with isHoneypot in the place of isScam.
submitAuditResultBody_WrongEventFlag(sender, tokenAddress, riskScore, isScam, isHoneypot, ipfsHash) ==
    /\ auditRecords' = [auditRecords EXCEPT ![tokenAddress] =
            [tokenAddress |-> tokenAddress, riskScore |-> riskScore,
             isScam |-> isScam, isHoneypot |-> isHoneypot, auditTimestamp |-> now,
             auditor |-> sender, ipfsHash |-> ipfsHash]]
    /\ auditCount' = [auditCount EXCEPT ![sender] = @ + 1]
    /\ events' = Append(events,
            [name |-> "AuditCompleted", token |-> tokenAddress, auditor |-> sender,
             riskScore |-> riskScore, isScam |-> isHoneypot, timestamp |-> now])
    /\ status' = NOT_ENTERED
    /\ UNCHANGED <<owner, tokenMetrics, authorizedAuditors>>

\* Mutant: a resubmission replaces the score, the flags, the time and the
\* auditor of the record and leaves the reference of the submission before.
submitAuditResultBody_KeepsReference(sender, tokenAddress, riskScore, isScam, isHoneypot, ipfsHash) ==
    /\ auditRecords' = [auditRecords EXCEPT ![tokenAddress] =
            [tokenAddress |-> tokenAddress, riskScore |-> riskScore,
             isScam |-> isScam, isHoneypot |-> isHoneypot, auditTimestamp |-> now,
             auditor |-> sender,
             ipfsHash |-> IF auditRecords[tokenAddress].auditTimestamp > 0
                          THEN auditRecords[tokenAddress].ipfsHash ELSE ipfsHash]]
    /\ auditCount' = [auditCount EXCEPT ![sender] = @ + 1]
    /\ events' = Append(events,
            AuditCompleted(tokenAddress, sender, riskScore, isScam, now))
    /\ status' = NOT_ENTERED
    /\ UNCHANGED <<owner, tokenMetrics, authorizedAuditors>>

\* The effect of submitAuditResult's body on the storage and the log.
submitAuditResultBody(sender, tokenAddress, riskScore, isScam, isHoneypot, ipfsHash) ==
    /\ auditRecords' = [auditRecords EXCEPT ![tokenAddress] =
            NewAuditRecord(sender, tokenAddress, riskScore, isScam, isHoneypot,
                           ipfsHash)]
    /\ auditCount' = [auditCount EXCEPT ![sender] = @ + 1]
    /\ events' = Append(events,
            AuditCompleted(tokenAddress, sender, riskScore, isScam, now))
    \* nonReentrant: ENTERED while the body runs, NOT_ENTERED again after it
    /\ status' = NOT_ENTERED
    /\ UNCHANGED <<owner, tokenMetrics, authorizedAuditors>>

submitAuditResult(sender, tokenAddress, riskScore, isScam, isHoneypot, ipfsHash) ==
    LET result == submitAuditResultCheck(sender, tokenAddress, riskScore) IN
    /\ result = OK => Len(events) < MaxEvents
    /\ UNCHANGED outsideRegistry
    /\ last' = Call("submitAuditResult", sender, result)
    /\ UNCHANGED now
    /\ IF result = OK
       THEN submitAuditResultBody(sender, tokenAddress, riskScore, isScam,
                                  isHoneypot, ipfsHash)
       ELSE UNCHANGED registry

\* The struct updateTokenMetrics stores.
NewTokenMetrics(totalTransactions, uniqueHolders, liquidityUSD, liquidityLocked) ==
    [totalTransactions |-> totalTransactions, uniqueHolders |-> uniqueHolders,
     liquidityUSD |-> liquidityUSD, liquidityLocked |-> liquidityLocked,
     lastUpdated |-> now]

\* Mutant: a liquidity lock once reported stays reported.
updateTokenMetricsBody_StickyLock(tokenAddress, totalTransactions, uniqueHolders, liquidityUSD, liquidityLocked) ==
    /\ tokenMetrics' = [tokenMetrics EXCEPT ![tokenAddress] =
            [totalTransactions |-> totalTransactions, uniqueHolders |-> uniqueHolders,
             liquidityUSD |-> liquidityUSD,
             liquidityLocked |-> tokenMetrics[tokenAddress].liquidityLocked \/ liquidityLocked,
             lastUpdated |-> now]]
    /\ events' = Append(events,
            TokenMetricsUpdated(tokenAddress, totalTransactions, uniqueHolders,
                                liquidityUSD))
    /\ UNCHANGED <<owner, status, auditRecords, authorizedAuditors, auditCount>>

\* The effect of updateTokenMetrics's body on the storage and the log.
updateTokenMetricsBody(tokenAddress, totalTransactions, uniqueHolders, liquidityUSD, liquidityLocked) ==
    /\ tokenMetrics' = [tokenMetrics EXCEPT ![tokenAddress] =
            NewTokenMetrics(totalTransactions, uniqueHolders, liquidityUSD,
                            liquidityLocked)]
    /\ events' = Append(events,
            TokenMetricsUpdated(tokenAddress, totalTransactions, uniqueHolders,
                                liquidityUSD))
    /\ UNCHANGED <<owner, status, auditRecords, authorizedAuditors, auditCount>>

updateTokenMetrics(sender, tokenAddress, totalTransactions, uniqueHolders, liquidityUSD, liquidityLocked) ==
    LET result == IF onlyAuthorizedAuditor(sender) THEN OK ELSE ErrNotAuthorized IN
    /\ result = OK => Len(events) < MaxEvents
    /\ UNCHANGED outsideRegistry
    /\ last' = Call("updateTokenMetrics", sender, result)
    /\ UNCHANGED now
    /\ IF result = OK
       THEN updateTokenMetricsBody(tokenAddress, totalTransactions, uniqueHolders,
                                   liquidityUSD, liquidityLocked)
       ELSE UNCHANGED registry

\* Ownable.transferOwnership, inherited.
transferOwnership(sender, newOwner) ==
    LET result == IF ~onlyOwner(sender) THEN ErrNotOwner
                  ELSE IF ~(newOwner # ZeroAddress) THEN ErrNewOwnerZero
                  ELSE OK IN
    /\ UNCHANGED outsideRegistry
    /\ last' = Call("transferOwnership", sender, result)
    /\ IF result = OK
       THEN /\ owner' = newOwner
            /\ UNCHANGED <<status, auditRecords, tokenMetrics, authorizedAuditors,
                           auditCount, events, now>>
       ELSE UNCHANGED <<registry, now>>

\* Ownable.renounceOwnership, inherited.
renounceOwnership(sender) ==
    LET result == IF onlyOwner(sender) THEN OK ELSE ErrNotOwner IN
    /\ UNCHANGED outsideRegistry
    /\ last' = Call("renounceOwnership", sender, result)
    /\ IF result = OK
       THEN /\ owner' = ZeroAddress
            /\ UNCHANGED <<status, auditRecords, tokenMetrics, authorizedAuditors,
                           auditCount, events, now>>
       ELSE UNCHANGED <<registry, now>>

\* A new block is mined: block.timestamp grows.
NextBlock ==
    /\ now < MaxTime
    /\ now' = now + 1
    /\ last' = NoCall
    /\ UNCHANGED <<registry, outsideRegistry>>

\* The inputs submitAuditResult is called with for token t: every sample for
\* TokenContract and for address(0), and for the other addresses the samples
\* with the first ipfsHash.
SubmitSamples(t) ==
    IF t \in {ZeroAddress, TokenContract} THEN AuditSamples
    ELSE {x \in AuditSamples : x[4] = "QmA"}

\* The tokens updateTokenMetrics is called for.
MetricTokens == {TokenContract}

Next ==
    \/ \E s \in Senders, a \in Senders : addAuthorizedAuditor(s, a)
    \/ \E s \in Senders, a \in Senders : removeAuthorizedAuditor(s, a)
    \/ \E s \in Senders, t \in Address : \E x \in SubmitSamples(t) :
            submitAuditResult(s, t, x[1], x[2], x[3], x[4])
    \/ \E s \in Senders, t \in MetricTokens, m \in MetricSamples :
            updateTokenMetrics(s, t, m[1], m[2], m[3], m[4])
    \/ \E s \in Senders, a \in Address : transferOwnership(s, a)
    \/ \E s \in Senders : renounceOwnership(s)
    \/ NextBlock

Spec == Init /\ [][Next]_vars

\* ------------------------------------------------------------------ AuditRegistry, call by call
\* A call of a writing function that was entered: its function, msg.sender
\* and arguments.
Frame(op, sender, tokenAddress, args) ==
    [op |-> op, sender |-> sender, tokenAddress |-> tokenAddress, args |-> args]

\* Mutant: the body calls back msg.sender before it returns.
ExternalCalls_NotifiesSender(frame) == {frame.sender}

\* The addresses the body of a writing function passes control to before it
\* returns.  Neither body has an external call: they assign storage, read
\* block.timestamp and emit.
ExternalCalls(frame) == {}

\* sender can call the registry now: with a transaction when none is in
\* execution, or as the code that the innermost call has passed control to.
CanCall(sender) ==
    \/ frames = <<>>
    \/ frames # <<>> /\ sender \in ExternalCalls(frames[Len(frames)])

\* submitAuditResult is called: its modifiers and requires; nonReentrant sets
\* _status = ENTERED before the body.
submitAuditResult_enter(sender, tokenAddress, riskScore, isScam, isHoneypot, ipfsHash) ==
    LET result == submitAuditResultCheck(sender, tokenAddress, riskScore) IN
    /\ CanCall(sender)
    /\ Len(events) + Len(frames) < MaxEvents
    /\ UNCHANGED <<scamVars, analyzerVars, pipelineVars, now>>
    /\ IF result = OK
       THEN /\ status' = ENTERED
            /\ frames' = Append(frames, Frame("submitAuditResult", sender, tokenAddress,
                                              <<riskScore, isScam, isHoneypot, ipfsHash>>))
            /\ UNCHANGED <<owner, auditRecords, tokenMetrics, authorizedAuditors,
                           auditCount, events, last>>
       ELSE /\ last' = Call("submitAuditResult", sender, result)
            /\ UNCHANGED <<registry, frames>>

\* updateTokenMetrics is called: its modifier.
updateTokenMetrics_enter(sender, tokenAddress, totalTransactions, uniqueHolders, liquidityUSD, liquidityLocked) ==
    LET result == IF onlyAuthorizedAuditor(sender) THEN OK ELSE ErrNotAuthorized IN
    /\ CanCall(sender)
    /\ Len(events) + Len(frames) < MaxEvents
    /\ UNCHANGED <<scamVars, analyzerVars, pipelineVars, now>>
    /\ IF result = OK
       THEN /\ frames' = Append(frames, Frame("updateTokenMetrics", sender, tokenAddress,
                                              <<totalTransactions, uniqueHolders,
                                                liquidityUSD, liquidityLocked>>))
            /\ UNCHANGED <<registry, last>>
       ELSE /\ last' = Call("updateTokenMetrics", sender, result)
            /\ UNCHANGED <<registry, frames>>

\* The innermost call runs its body to the end and returns; nonReentrant sets
\* _status = NOT_ENTERED after the body of submitAuditResult.
writeReturns ==
    /\ frames # <<>>
    /\ LET f == frames[Len(frames)] IN
       /\ IF f.op = "submitAuditResult"
          THEN submitAuditResultBody(f.sender, f.tokenAddress, f.args[1], f.args[2],
                                     f.args[3], f.args[4])
          ELSE updateTokenMetricsBody(f.tokenAddress, f.args[1], f.args[2], f.args[3],
                                      f.args[4])
       /\ last' = Call(f.op, f.sender, OK)
    /\ frames' = SubSeq(frames, 1, Len(frames) - 1)
    /\ UNCHANGED <<scamVars, analyzerVars, pipelineVars, now>>

\* A block is mined between two transactions.
ChainNextBlock == frames = <<>> /\ NextBlock

ChainNext ==
    \/ \E s \in Senders, t \in Address, x \in AuditSamples :
            submitAuditResult_enter(s, t, x[1], x[2], x[3], x[4])
    \/ \E s \in Senders, t \in Address, m \in MetricSamples :
            updateTokenMetrics_enter(s, t, m[1], m[2], m[3], m[4])
    \/ writeReturns
    \/ \E s \in Senders, a \in Senders : frames = <<>> /\ addAuthorizedAuditor(s, a)
    \/ ChainNextBlock

SpecChain == Init /\ [][ChainNext]_vars

\* ------------------------------------------------------------------ ScamDetector
\* Ownable.onlyOwner of ScamDetector: the condition of its require
ScamDetector_onlyOwner(sender) == sender = scamOwner

getScamAnalysis(tokenAddress) == scamAnalysis[tokenAddress]

checkForHiddenMint(tokenAddress) ==
    IF ~hasCode[tokenAddress] THEN FALSE
    ELSE mintHash[tokenAddress][now] % 7 = 0

checkForBlacklist(tokenAddress) == addrHash[tokenAddress] % 10 = 0

checkForHighTax(tokenAddress) == addrHash[tokenAddress] % 5 = 0

checkForLiquidityDrain(tokenAddress) == addrHash[tokenAddress] % 8 = 0

\* Evaluated only for an address with code, where the try statement catches
\* what owner() does.
checkOwnershipIssues(tokenAddress) ==
    LET tokenOwner == ownerCall[tokenAddress] IN
    IF tokenOwner = Reverts THEN TRUE
    ELSE IF tokenOwner = ZeroAddress THEN TRUE
    ELSE IF hasCode[tokenOwner] THEN TRUE
    ELSE ownerHash[tokenAddress] % 6 = 0

\* Mutant: the weights of hidden mint and blacklist exchanged.
WeightedRiskScore_SwappedWeights(hasHiddenMint, hasBlacklist, hasHighTax, hasLiquidityDrain, hasOwnershipIssues) ==
    (IF hasHiddenMint THEN 30 ELSE 0)
    + (IF hasBlacklist THEN 25 ELSE 0)
    + (IF hasHighTax THEN 20 ELSE 0)
    + (IF hasLiquidityDrain THEN 35 ELSE 0)
    + (IF hasOwnershipIssues THEN 15 ELSE 0)

\* The weighted sum of analyzeToken.
WeightedRiskScore(hasHiddenMint, hasBlacklist, hasHighTax, hasLiquidityDrain, hasOwnershipIssues) ==
    (IF hasHiddenMint THEN 25 ELSE 0)
    + (IF hasBlacklist THEN 30 ELSE 0)
    + (IF hasHighTax THEN 20 ELSE 0)
    + (IF hasLiquidityDrain THEN 35 ELSE 0)
    + (IF hasOwnershipIssues THEN 15 ELSE 0)

\* Mutant: the honeypot threshold moved above 75.
HoneypotAt_Above75(riskScore) == riskScore > 75

\* flags.isHoneypot of a token in neither list.
HoneypotAt(riskScore) == riskScore >= 70

\* The flags analyzeToken builds for a known scam: isHoneypot is set and the
\* local riskScore is 100, but flags.riskScore is not assigned.
KnownScamFlags == [ZeroScamFlags EXCEPT !.isHoneypot = TRUE]

\* The flags analyzeToken builds for a token in neither list.
HeuristicFlags(tokenAddress) ==
    LET hiddenMint == checkForHiddenMint(tokenAddress)
        blacklist == checkForBlacklist(tokenAddress)
        highTax == checkForHighTax(tokenAddress)
        liquidityDrain == checkForLiquidityDrain(tokenAddress)
        ownershipIssues == checkOwnershipIssues(tokenAddress)
        riskScore == WeightedRiskScore(hiddenMint, blacklist, highTax,
                                       liquidityDrain, ownershipIssues)
    IN  [hasHiddenMint |-> hiddenMint, hasBlacklist |-> blacklist,
         hasHighTax |-> highTax, hasLiquidityDrain |-> liquidityDrain,
         hasOwnershipIssues |-> ownershipIssues,
         isHoneypot |-> HoneypotAt(riskScore), riskScore |-> riskScore]

\* The outcome of a run of analyzeToken: reverted, or returned flags (which are
\* also stored) with the events emitted.
Reverted(message) == [result |-> message, flags |-> ZeroScamFlags, logs |-> <<>>]
Returned(flags, logs) == [result |-> OK, flags |-> flags, logs |-> logs]

\* Mutant: the trusted list has no effect.
analyzeTokenRun_NoTrustedList(tokenAddress) ==
    IF ~(tokenAddress # ZeroAddress) THEN Reverted(ErrInvalidToken)
    ELSE IF knownScams[tokenAddress]
    THEN Returned(KnownScamFlags,
                  <<ScamDetected(tokenAddress, "Known scam token", now)>>)
    ELSE IF ~hasCode[tokenAddress] THEN Reverted(ErrCallFailed)
    ELSE LET flags == HeuristicFlags(tokenAddress) IN
         Returned(flags,
                  IF flags.isHoneypot
                  THEN <<ScamDetected(tokenAddress, "High risk score detected", now)>>
                  ELSE <<>>)

\* Mutant: the trusted list is consulted before the scam list.
analyzeTokenRun_TrustedFirst(tokenAddress) ==
    IF ~(tokenAddress # ZeroAddress) THEN Reverted(ErrInvalidToken)
    ELSE IF trustedTokens[tokenAddress] THEN Returned(ZeroScamFlags, <<>>)
    ELSE IF knownScams[tokenAddress]
    THEN Returned(KnownScamFlags,
                  <<ScamDetected(tokenAddress, "Known scam token", now)>>)
    ELSE IF ~hasCode[tokenAddress] THEN Reverted(ErrCallFailed)
    ELSE LET flags == HeuristicFlags(tokenAddress) IN
         Returned(flags,
                  IF flags.isHoneypot
                  THEN <<ScamDetected(tokenAddress, "High risk score detected", now)>>
                  ELSE <<>>)

analyzeTokenRun(tokenAddress) ==
    IF ~(tokenAddress # ZeroAddress) THEN Reverted(ErrInvalidToken)
    ELSE IF knownScams[tokenAddress]
    THEN Returned(KnownScamFlags,
                  <<ScamDetected(tokenAddress, "Known scam token", now)>>)
    ELSE IF trustedTokens[tokenAddress] THEN Returned(ZeroScamFlags, <<>>)
    ELSE IF ~hasCode[tokenAddress] THEN Reverted(ErrCallFailed)
    ELSE LET flags == HeuristicFlags(tokenAddress) IN
         Returned(flags,
                  IF flags.isHoneypot
                  THEN <<ScamDetected(tokenAddress, "High risk score detected", now)>>
                  ELSE <<>>)

analyzeToken(sender, tokenAddress) ==
    LET run == analyzeTokenRun(tokenAddress) IN
    /\ scamLast' = ScamCall("analyzeToken", sender, tokenAddress, run.result,
                            run.flags, run.logs)
    /\ scamAnalysis' = IF run.result = OK
                       THEN [scamAnalysis EXCEPT ![tokenAddress] = run.flags]
                       ELSE scamAnalysis
    /\ UNCHANGED <<scamOwner, knownScams, trustedTokens, chain, now, outsideDetector>>

addKnownScam(sender, tokenAddress) ==
    LET allowed == ScamDetector_onlyOwner(sender) IN
    /\ scamLast' = ScamCall("addKnownScam", sender, tokenAddress,
                            IF allowed THEN OK ELSE ErrNotOwner, ZeroScamFlags,
                            IF allowed
                            THEN <<ScamDetected(tokenAddress, "Added to scam list", now)>>
                            ELSE <<>>)
    /\ knownScams' = IF allowed THEN [knownScams EXCEPT ![tokenAddress] = TRUE]
                     ELSE knownScams
    /\ UNCHANGED <<scamOwner, scamAnalysis, trustedTokens, chain, now, outsideDetector>>

\* Mutant: a token is trusted without a TokenVerified event.
addTrustedToken_Silent(sender, tokenAddress) ==
    LET allowed == ScamDetector_onlyOwner(sender) IN
    /\ scamLast' = ScamCall("addTrustedToken", sender, tokenAddress,
                            IF allowed THEN OK ELSE ErrNotOwner, ZeroScamFlags, <<>>)
    /\ trustedTokens' = IF allowed THEN [trustedTokens EXCEPT ![tokenAddress] = TRUE]
                        ELSE trustedTokens
    /\ UNCHANGED <<scamOwner, scamAnalysis, knownScams, chain, now, outsideDetector>>

addTrustedToken(sender, tokenAddress) ==
    LET allowed == ScamDetector_onlyOwner(sender) IN
    /\ scamLast' = ScamCall("addTrustedToken", sender, tokenAddress,
                            IF allowed THEN OK ELSE ErrNotOwner, ZeroScamFlags,
                            IF allowed THEN <<TokenVerified(tokenAddress, now)>>
                            ELSE <<>>)
    /\ trustedTokens' = IF allowed THEN [trustedTokens EXCEPT ![tokenAddress] = TRUE]
                        ELSE trustedTokens
    /\ UNCHANGED <<scamOwner, scamAnalysis, knownScams, chain, now, outsideDetector>>

\* Mutant: removeFromScamList without the onlyOwner modifier.
removeFromScamList_NoGuard(sender, tokenAddress) ==
    /\ scamLast' = ScamCall("removeFromScamList", sender, tokenAddress, OK,
                            ZeroScamFlags, <<>>)
    /\ knownScams' = [knownScams EXCEPT ![tokenAddress] = FALSE]
    /\ UNCHANGED <<scamOwner, scamAnalysis, trustedTokens, chain, now, outsideDetector>>

\* Mutant: removing a token from the scam list also ends its trusted status.
removeFromScamList_ClearsTrusted(sender, tokenAddress) ==
    LET allowed == ScamDetector_onlyOwner(sender) IN
    /\ scamLast' = ScamCall("removeFromScamList", sender, tokenAddress,
                            IF allowed THEN OK ELSE ErrNotOwner, ZeroScamFlags, <<>>)
    /\ knownScams' = IF allowed THEN [knownScams EXCEPT ![tokenAddress] = FALSE]
                     ELSE knownScams
    /\ trustedTokens' = IF allowed THEN [trustedTokens EXCEPT ![tokenAddress] = FALSE]
                        ELSE trustedTokens
    /\ UNCHANGED <<scamOwner, scamAnalysis, chain, now, outsideDetector>>

removeFromScamList(sender, tokenAddress) ==
    LET allowed == ScamDetector_onlyOwner(sender) IN
    /\ scamLast' = ScamCall("removeFromScamList", sender, tokenAddress,
                            IF allowed THEN OK ELSE ErrNotOwner, ZeroScamFlags, <<>>)
    /\ knownScams' = IF allowed THEN [knownScams EXCEPT ![tokenAddress] = FALSE]
                     ELSE knownScams
    /\ UNCHANGED <<scamOwner, scamAnalysis, trustedTokens, chain, now, outsideDetector>>

\* Ownable.transferOwnership, inherited by ScamDetector.
ScamDetector_transferOwnership(sender, newOwner) ==
    LET result == IF ~ScamDetector_onlyOwner(sender) THEN ErrNotOwner
                  ELSE IF ~(newOwner # ZeroAddress) THEN ErrNewOwnerZero
                  ELSE OK IN
    /\ scamLast' = ScamCall("transferOwnership", sender, ZeroAddress, result,
                            ZeroScamFlags, <<>>)
    /\ scamOwner' = IF result = OK THEN newOwner ELSE scamOwner
    /\ UNCHANGED <<scamAnalysis, knownScams, trustedTokens, chain, now, outsideDetector>>

\* Ownable.renounceOwnership, inherited by ScamDetector.
ScamDetector_renounceOwnership(sender) ==
    LET result == IF ScamDetector_onlyOwner(sender) THEN OK ELSE ErrNotOwner IN
    /\ scamLast' = ScamCall("renounceOwnership", sender, ZeroAddress, result,
                            ZeroScamFlags, <<>>)
    /\ scamOwner' = IF result = OK THEN ZeroAddress ELSE scamOwner
    /\ UNCHANGED <<scamAnalysis, knownScams, trustedTokens, chain, now, outsideDetector>>

\* A new block is mined while ScamDetector is in use.
ScamNextBlock ==
    /\ now < MaxTime
    /\ now' = now + 1
    /\ scamLast' = NoScamCall
    /\ UNCHANGED <<detector, chain, outsideDetector>>

\* The tokens put on the lists and taken off them.
ListedTokens == {TokenContract}

ScamNext ==
    \/ \E s \in Senders, t \in Address : analyzeToken(s, t)
    \/ \E s \in Senders, t \in ListedTokens : addKnownScam(s, t)
    \/ \E s \in Senders, t \in ListedTokens : addTrustedToken(s, t)
    \/ \E s \in Senders, t \in ListedTokens : removeFromScamList(s, t)
    \/ \E s \in Senders, a \in Address : ScamDetector_transferOwnership(s, a)
    \/ \E s \in Senders : ScamDetector_renounceOwnership(s)
    \/ ScamNextBlock

SpecScam == ScamInit /\ [][ScamNext]_vars

\* ------------------------------------------------------------------ TokenAnalyzer
TokenAnalyzer_onlyOwner(sender) == sender = analyzerOwner

\* address(this), the sender of the calls the contract makes to itself.
AnalyzerContract == NumAddr + 1

getTokenInfo(tokenAddress) == analyzedTokens[tokenAddress]

checkSecurityFlags(tokenAddress) == securityAnalysis[tokenAddress]

\* Mutant: an owner counts whether or not ownership was renounced.
calculateRiskScore_IgnoresRenounced(tokenAddress) ==
    LET flags == securityAnalysis[tokenAddress] IN
    (IF flags.hasOwner THEN 20 ELSE 0)
    + (IF flags.hasMintFunction THEN 25 ELSE 0)
    + (IF flags.hasPauseFunction THEN 15 ELSE 0)
    + (IF flags.hasBlacklistFunction THEN 30 ELSE 0)
    + (IF ~flags.hasBurnFunction THEN 10 ELSE 0)

calculateRiskScore(tokenAddress) ==
    LET flags == securityAnalysis[tokenAddress] IN
    (IF flags.hasOwner /\ ~flags.ownershipRenounced THEN 20 ELSE 0)
    + (IF flags.hasMintFunction THEN 25 ELSE 0)
    + (IF flags.hasPauseFunction THEN 15 ELSE 0)
    + (IF flags.hasBlacklistFunction THEN 30 ELSE 0)
    + (IF ~flags.hasBurnFunction THEN 10 ELSE 0)

\* The TokenInfo built by the five try statements for a token contract: what
\* the function returns, or what the catch clause assigns.
AnalyzedInfo(tokenAddress) ==
    LET token == tokenReads[tokenAddress] IN
    [name |-> IF "name" \in token.failing
              THEN addressToString(tokenAddress) ELSE token.name,
     symbol |-> IF "symbol" \in token.failing
                THEN addressToShortString(tokenAddress) ELSE token.symbol,
     decimals |-> IF "decimals" \in token.failing
                  THEN FallbackDecimals ELSE token.decimals,
     totalSupply |-> IF "totalSupply" \in token.failing
                     THEN FallbackTotalSupply ELSE token.totalSupply,
     owner |-> IF ownerCall[tokenAddress] = Reverts
               THEN FallbackOwner ELSE ownerCall[tokenAddress],
     exists |-> TRUE]

AnalyzerReverted(message) == [result |-> message, info |-> ZeroTokenInfo, logs |-> <<>>]

\* analyzeToken called by sender while _status is entered.  A call to an
\* address without code returns nothing, which the try statement fails to
\* decode as the declared return value: that reverts the caller, in no catch
\* clause.
TokenAnalyzer_analyzeTokenRun(entered, sender, tokenAddress) ==
    IF entered = ENTERED THEN AnalyzerReverted(ErrReentrant)
    ELSE IF ~(tokenAddress # ZeroAddress) THEN AnalyzerReverted(ErrInvalidToken)
    ELSE IF ~hasCode[tokenAddress] THEN AnalyzerReverted(ErrCallFailed)
    ELSE [result |-> OK, info |-> AnalyzedInfo(tokenAddress),
          logs |-> <<TokenAnalyzed(tokenAddress, sender, now)>>]

TokenAnalyzer_analyzeToken(sender, tokenAddress) ==
    LET run == TokenAnalyzer_analyzeTokenRun(analyzerStatus, sender, tokenAddress) IN
    /\ analyzerLast' = AnalyzerCall("analyzeToken", sender, <<tokenAddress>>, run.result,
                                    IF run.result = OK THEN <<run.info>> ELSE <<>>,
                                    run.logs)
    /\ analyzedTokens' = IF run.result = OK
                         THEN [analyzedTokens EXCEPT ![tokenAddress] = run.info]
                         ELSE analyzedTokens
    /\ UNCHANGED <<analyzerOwner, analyzerStatus, securityAnalysis, tokenReads,
                   hasCode, ownerCall, now, outsideAnalyzer>>

\* What batchAnalyze has done before iteration i: the outcome, the storage
\* written, the results filled in and the events emitted so far.
BatchStart == [result |-> OK, stored |-> analyzedTokens, results |-> <<>>, logs |-> <<>>]

RECURSIVE batchAnalyzeLoop(_, _, _)
\* Iterations i .. tokens.length - 1: results[i] = this.analyzeToken(tokens[i]),
\* an external call made while batchAnalyze holds the guard.
batchAnalyzeLoop(tokens, i, done) ==
    IF i > Len(tokens) THEN done
    ELSE LET run == TokenAnalyzer_analyzeTokenRun(ENTERED, AnalyzerContract, tokens[i]) IN
         IF run.result # OK
         THEN [BatchStart EXCEPT !.result = run.result]
         ELSE batchAnalyzeLoop(tokens, i + 1,
                               [result |-> OK,
                                stored |-> [done.stored EXCEPT ![tokens[i]] = run.info],
                                results |-> Append(done.results, run.info),
                                logs |-> done.logs \o run.logs])

\* Mutant: no limit on the number of tokens.
batchAnalyzeRun_NoLimit(entered, tokens) ==
    IF entered = ENTERED THEN [BatchStart EXCEPT !.result = ErrReentrant]
    ELSE batchAnalyzeLoop(tokens, 1, BatchStart)

batchAnalyzeRun(entered, tokens) ==
    IF entered = ENTERED THEN [BatchStart EXCEPT !.result = ErrReentrant]
    ELSE IF ~(Len(tokens) <= 10) THEN [BatchStart EXCEPT !.result = ErrTooManyTokens]
    ELSE batchAnalyzeLoop(tokens, 1, BatchStart)

batchAnalyze(sender, tokens) ==
    LET run == batchAnalyzeRun(analyzerStatus, tokens) IN
    /\ analyzerLast' = AnalyzerCall("batchAnalyze", sender, tokens, run.result,
                                    run.results, run.logs)
    /\ analyzedTokens' = run.stored
    /\ UNCHANGED <<analyzerOwner, analyzerStatus, securityAnalysis, tokenReads,
                   hasCode, ownerCall, now, outsideAnalyzer>>

setSecurityFlags(sender, tokenAddress, flags) ==
    LET allowed == TokenAnalyzer_onlyOwner(sender) IN
    /\ analyzerLast' = AnalyzerCall("setSecurityFlags", sender, <<tokenAddress>>,
                                    IF allowed THEN OK ELSE ErrNotOwner, <<>>, <<>>)
    /\ securityAnalysis' = IF allowed
                           THEN [securityAnalysis EXCEPT ![tokenAddress] = flags]
                           ELSE securityAnalysis
    /\ UNCHANGED <<analyzerOwner, analyzerStatus, analyzedTokens, tokenReads,
                   hasCode, ownerCall, now, outsideAnalyzer>>

TokenAnalyzer_transferOwnership(sender, newOwner) ==
    LET result == IF ~TokenAnalyzer_onlyOwner(sender) THEN ErrNotOwner
                  ELSE IF ~(newOwner # ZeroAddress) THEN ErrNewOwnerZero
                  ELSE OK IN
    /\ analyzerLast' = AnalyzerCall("transferOwnership", sender, <<newOwner>>, result,
                                    <<>>, <<>>)
    /\ analyzerOwner' = IF result = OK THEN newOwner ELSE analyzerOwner
    /\ UNCHANGED <<analyzerStatus, analyzedTokens, securityAnalysis, tokenReads,
                   hasCode, ownerCall, now, outsideAnalyzer>>

\* A new block is mined while TokenAnalyzer is in use.
AnalyzerNextBlock ==
    /\ now < MaxTime
    /\ now' = now + 1
    /\ analyzerLast' = NoAnalyzerCall
    /\ UNCHANGED <<analyzer, tokenReads, hasCode, ownerCall, outsideAnalyzer>>

\* The lists of addresses passed to batchAnalyze: empty, one token, a token
\* after an account without code, ten tokens, eleven tokens.
BatchSamples ==
    {<<>>, <<TokenContract>>, <<Deployer, TokenContract>>,
     [i \in 1..10 |-> TokenContract], [i \in 1..11 |-> TokenContract]}

\* The structural flags the owner records for a token: an owner who can mint;
\* a renounced owner with burn, pause and blacklist functions; every flag that
\* adds to the score; none of them.
SecurityFlagSamples ==
    {[ZeroSecurityFlags EXCEPT !.hasOwner = TRUE, !.hasMintFunction = TRUE],
     [ZeroSecurityFlags EXCEPT !.hasOwner = TRUE, !.ownershipRenounced = TRUE,
                               !.hasBurnFunction = TRUE, !.hasPauseFunction = TRUE,
                               !.hasBlacklistFunction = TRUE],
     [ZeroSecurityFlags EXCEPT !.hasOwner = TRUE, !.hasMintFunction = TRUE,
                               !.hasPauseFunction = TRUE, !.hasBlacklistFunction = TRUE],
     [ZeroSecurityFlags EXCEPT !.hasBurnFunction = TRUE, !.ownershipRenounced = TRUE]}

\* The token contracts TokenAnalyzer reads: no code at the address, or code
\* whose owner() reverts, returns address(0) or returns the deployer.
AnalyzerChainProfiles ==
    {NoCodeProfile}
    \cup {[NoCodeProfile EXCEPT !.hasCode = TRUE, !.ownerCall = o] :
             o \in {Reverts, ZeroAddress, Deployer}}

AnalyzerInit ==
    /\ RegistryDeployed
    /\ ScamDetectorDeployed
    /\ TokenAnalyzerDeployed
    /\ AuditServiceUnused
    /\ \E p \in AnalyzerChainProfiles : ChainIs(p)
    /\ \E r \in ReadProfiles : ReadsAre(r)

AnalyzerNext ==
    \/ \E s \in Senders, t \in Address : TokenAnalyzer_analyzeToken(s, t)
    \/ \E s \in Senders, ts \in BatchSamples : batchAnalyze(s, ts)
    \/ \E s \in Senders, f \in SecurityFlagSamples : setSecurityFlags(s, TokenContract, f)
    \/ \E s \in Senders, a \in Address : TokenAnalyzer_transferOwnership(s, a)
    \/ AnalyzerNextBlock

SpecAnalyzer == AnalyzerInit /\ [][AnalyzerNext]_vars

\* ------------------------------------------------------------------ audit service
environment_isFeatureEnabled(feature) == features[feature]

\* What the contracts and the token hold while auditToken runs: it sends no
\* transaction to ScamDetector or TokenAnalyzer.
outsideAudit == <<frames, scamVars, analyzerVars, service, now>>

\* The remote calls auditToken awaits: the four reads of analyzeTokenOnChain,
\* the reads on the token, the two transactions with their tx.wait(), and the
\* fetch of the two enrichment services.
Upstreams == {"getTokenInfo", "getScamAnalysis", "isTokenAudited", "getAuditRecord",
              "directReads", "updateTokenMetrics", "submitAuditResult",
              "aiPrediction", "socialSentiment"}

\* await on the promises of the calls ops: the code after it runs once all of
\* them have settled.  No await of the service has a timeout, none of its
\* fetch calls a signal, and tx.wait() is called without arguments.
Settles(ops) == ops \cap unresponsive = {}

\* auditToken is called: it awaits analyzeTokenOnChain.
auditToken(address) ==
    /\ pc = "idle"
    /\ pc' = "getTokenInfo"
    /\ contractAddress' = address
    /\ UNCHANGED <<onChain, blockchainData, tokenInfo, security, liquidityInfo,
                   transactionData, auditResult, calls, registry, last, outsideAudit>>

\* Mutant: a failed read leaves what was read before it.
FailedOnChainData_KeepPartial(partial) ==
    OnChainData(partial.tokenInfo, partial.scamAnalysis, FALSE, ZeroAuditRecord)

\* analyzeTokenOnChain rethrows the error of a read and auditToken catches it:
\* blockchainData = null, whatever was read before.
FailedOnChainData(partial) == NullBlockchainData

\* A read of analyzeTokenOnChain throws.
analyzeTokenOnChainThrows ==
    /\ blockchainData' = FailedOnChainData(onChain)
    /\ onChain' = NoOnChain
    /\ pc' = "getEnhancedTokenInfo"

\* analyzeTokenOnChain returns its object.
analyzeTokenOnChainReturns(audited, record) ==
    /\ blockchainData' = OnChainData(onChain.tokenInfo, onChain.scamAnalysis, audited,
                                     record)
    /\ onChain' = NoOnChain
    /\ pc' = "getEnhancedTokenInfo"

\* await this.tokenAnalyzer.getTokenInfo(tokenAddress)
analyzeTokenOnChain_getTokenInfo ==
    /\ pc = "getTokenInfo"
    /\ Settles({"getTokenInfo"})
    /\ \E answered \in BOOLEAN :
          IF answered
          THEN /\ onChain' = [onChain EXCEPT !.tokenInfo = getTokenInfo(contractAddress)]
               /\ pc' = "getScamAnalysis"
               /\ UNCHANGED blockchainData
          ELSE analyzeTokenOnChainThrows
    /\ UNCHANGED <<contractAddress, tokenInfo, security, liquidityInfo,
                   transactionData, auditResult, calls, registry, last, outsideAudit>>

\* await this.scamDetector.getScamAnalysis(tokenAddress)
analyzeTokenOnChain_getScamAnalysis ==
    /\ pc = "getScamAnalysis"
    /\ Settles({"getScamAnalysis"})
    /\ \E answered \in BOOLEAN :
          IF answered
          THEN /\ onChain' = [onChain EXCEPT
                                 !.scamAnalysis = getScamAnalysis(contractAddress)]
               /\ pc' = "isTokenAudited"
               /\ UNCHANGED blockchainData
          ELSE analyzeTokenOnChainThrows
    /\ UNCHANGED <<contractAddress, tokenInfo, security, liquidityInfo,
                   transactionData, auditResult, calls, registry, last, outsideAudit>>

\* await this.auditRegistry.isTokenAudited(tokenAddress)
analyzeTokenOnChain_isTokenAudited ==
    /\ pc = "isTokenAudited"
    /\ Settles({"isTokenAudited"})
    /\ \E answered \in BOOLEAN :
          IF ~answered THEN analyzeTokenOnChainThrows
          ELSE IF isTokenAudited(contractAddress)
          THEN /\ onChain' = [onChain EXCEPT !.isAudited = TRUE]
               /\ pc' = "getAuditRecord"
               /\ UNCHANGED blockchainData
          ELSE analyzeTokenOnChainReturns(FALSE, ZeroAuditRecord)
    /\ UNCHANGED <<contractAddress, tokenInfo, security, liquidityInfo,
                   transactionData, auditResult, calls, registry, last, outsideAudit>>

\* await this.auditRegistry.getAuditRecord(tokenAddress)
analyzeTokenOnChain_getAuditRecord ==
    /\ pc = "getAuditRecord"
    /\ Settles({"getAuditRecord"})
    /\ \E answered \in BOOLEAN :
          IF answered
          THEN analyzeTokenOnChainReturns(onChain.isAudited, getAuditRecord(contractAddress))
          ELSE analyzeTokenOnChainThrows
    /\ UNCHANGED <<contractAddress, tokenInfo, security, liquidityInfo,
                   transactionData, auditResult, calls, registry, last, outsideAudit>>

\* The functions getEnhancedTokenInfo reads on the token, in the order of its
\* awaits.
ReadOrder == <<"name", "symbol", "totalSupply", "decimals">>

\* contract.f() on the token returns: there is code at the address and the
\* function does not revert.  On an address without code the empty answer
\* cannot be decoded and the call throws.
DirectReadAnswers(address, f) == hasCode[address] /\ f \notin tokenReads[address].failing

\* The first of the sequential reads that throws; 0 when all four return.
FirstFailedRead(address) ==
    IF \A i \in 1..4 : DirectReadAnswers(address, ReadOrder[i]) THEN 0
    ELSE CHOOSE i \in 1..4 :
            /\ ~DirectReadAnswers(address, ReadOrder[i])
            /\ \A j \in 1..(i - 1) : DirectReadAnswers(address, ReadOrder[j])

\* The reads issued by the sequential attempt, and by Promise.allSettled after
\* it when one of them threw.
DirectReadsIssued(address) ==
    LET failedAt == FirstFailedRead(address) IN
    [i \in 1..4 |-> (IF failedAt = 0 \/ i <= failedAt THEN 1 ELSE 0)
                    + (IF failedAt # 0 THEN 1 ELSE 0)]

NoReadsIssued == [i \in 1..4 |-> 0]

\* const mockTokenInfo of the outer catch clause.
mockTokenInfo(address) ==
    EnhancedInfo("mock", AddressString(address), SubSeq(AddressString(address), 1, 6),
                 DefaultTotalSupply, DefaultDecimals, ZeroAddress)

\* The branch taken when blockchainData?.tokenInfo is truthy.
InfoFromBlockchainData(data) ==
    EnhancedInfo("blockchainData", data.tokenInfo.name, data.tokenInfo.symbol,
                 IF data.tokenInfo.totalSupply = "" THEN DefaultTotalSupply
                 ELSE data.tokenInfo.totalSupply,
                 IF data.tokenInfo.decimals = 0 THEN DefaultDecimals
                 ELSE data.tokenInfo.decimals,
                 data.tokenInfo.owner)

\* The four sequential reads all returned.
InfoFromDirectReads(address) ==
    LET token == tokenReads[address] IN
    EnhancedInfo("direct", token.name, token.symbol,
                 IF token.totalSupply = "" THEN DefaultTotalSupply ELSE token.totalSupply,
                 IF token.decimals = 0 THEN DefaultDecimals ELSE token.decimals,
                 ZeroAddress)

\* One of them threw: the reads are issued again under Promise.allSettled.
InfoFromAllSettled(address) ==
    LET token == tokenReads[address] IN
    EnhancedInfo("allSettled",
                 IF DirectReadAnswers(address, "name") THEN token.name
                 ELSE AddressString(address),
                 IF DirectReadAnswers(address, "symbol") THEN token.symbol
                 ELSE SubSeq(AddressString(address), 1, 6),
                 IF DirectReadAnswers(address, "totalSupply") THEN token.totalSupply
                 ELSE DefaultTotalSupply,
                 IF DirectReadAnswers(address, "decimals") THEN token.decimals
                 ELSE DefaultDecimals,
                 ZeroAddress)

\* What the body of the outer try statement of getEnhancedTokenInfo does: it
\* returns a TokenInfo, or throws where this.provider.connection is undefined
\* and its url is read.
getEnhancedTokenInfoTry(address, data) ==
    IF ~data.isNull
    THEN [thrown |-> FALSE, info |-> InfoFromBlockchainData(data), reads |-> NoReadsIssued]
    ELSE IF ~providerConnection
    THEN [thrown |-> TRUE, info |-> NoTokenInfo, reads |-> NoReadsIssued]
    ELSE [thrown |-> FALSE,
          info |-> IF FirstFailedRead(address) = 0 THEN InfoFromDirectReads(address)
                   ELSE InfoFromAllSettled(address),
          reads |-> DirectReadsIssued(address)]

\* Mutant: without the outer catch clause.
getEnhancedTokenInfoRun_NoOuterCatch(address, data) == getEnhancedTokenInfoTry(address, data)

\* getEnhancedTokenInfo: the outer catch clause returns mockTokenInfo.
getEnhancedTokenInfoRun(address, data) ==
    LET try == getEnhancedTokenInfoTry(address, data) IN
    IF try.thrown THEN [try EXCEPT !.thrown = FALSE, !.info = mockTokenInfo(address)]
    ELSE try

\* Step 2 of auditToken; what it throws, the catch clause of auditToken throws
\* again.
getEnhancedTokenInfo ==
    /\ pc = "getEnhancedTokenInfo"
    /\ LET got == getEnhancedTokenInfoRun(contractAddress, blockchainData) IN
       /\ Settles(IF got.reads = NoReadsIssued THEN {} ELSE {"directReads"})
       /\ calls' = [calls EXCEPT !.name = @ + got.reads[1], !.symbol = @ + got.reads[2],
                                 !.totalSupply = @ + got.reads[3],
                                 !.decimals = @ + got.reads[4]]
       /\ IF got.thrown
          THEN /\ auditResult' = [auditResult EXCEPT !.thrown = TRUE]
               /\ pc' = "thrown"
               /\ UNCHANGED tokenInfo
          ELSE /\ tokenInfo' = got.info
               /\ pc' = "performSecurityAnalysis"
               /\ UNCHANGED auditResult
    /\ UNCHANGED <<contractAddress, onChain, blockchainData, security, liquidityInfo,
                   transactionData, registry, last, outsideAudit>>

\* const riskLevel = riskScore < 25 ? 'LOW' : ...
riskLevelOf(riskScore) ==
    IF riskScore < 25 THEN "LOW"
    ELSE IF riskScore < 50 THEN "MEDIUM"
    ELSE IF riskScore < 75 THEN "HIGH"
    ELSE "CRITICAL"

\* Mutant: the ownership issue is pushed first.
IssuesOfScamData_OwnershipFirst(scamData) ==
    (IF scamData.hasOwnershipIssues THEN <<HeuristicIssues[5]>> ELSE <<>>)
    \o (IF scamData.hasHiddenMint THEN <<HeuristicIssues[1]>> ELSE <<>>)
    \o (IF scamData.hasBlacklist THEN <<HeuristicIssues[2]>> ELSE <<>>)
    \o (IF scamData.hasHighTax THEN <<HeuristicIssues[3]>> ELSE <<>>)
    \o (IF scamData.hasLiquidityDrain THEN <<HeuristicIssues[4]>> ELSE <<>>)

\* The issues pushed for the flags of scamData.
IssuesOfScamData(scamData) ==
    (IF scamData.hasHiddenMint THEN <<HeuristicIssues[1]>> ELSE <<>>)
    \o (IF scamData.hasBlacklist THEN <<HeuristicIssues[2]>> ELSE <<>>)
    \o (IF scamData.hasHighTax THEN <<HeuristicIssues[3]>> ELSE <<>>)
    \o (IF scamData.hasLiquidityDrain THEN <<HeuristicIssues[4]>> ELSE <<>>)
    \o (IF scamData.hasOwnershipIssues THEN <<HeuristicIssues[5]>> ELSE <<>>)

\* performSecurityAnalysis, with draw = <<score, number of issues, whether
\* Math.random() > 0.2>> for the values it takes from Math.random.
performSecurityAnalysisRun(data, draw) ==
    LET heuristic == ~data.isNull
        riskScore == IF heuristic THEN parseIntOrZero(data.scamAnalysis.riskScore)
                     ELSE draw[1]
        isHoneypot == heuristic /\ data.scamAnalysis.isHoneypot
    IN  [riskScore |-> riskScore,
         riskLevel |-> riskLevelOf(riskScore),
         issues |-> IF heuristic THEN IssuesOfScamData(data.scamAnalysis)
                    ELSE SubSeq(possibleIssues, 1, draw[2]),
         honeypotStatus |-> isHoneypot \/ riskScore > 70,
         canSell |-> ~isHoneypot /\ draw[3],
         source |-> IF heuristic THEN "scamAnalysis" ELSE "random"]

\* Step 3 of auditToken.
performSecurityAnalysis ==
    /\ pc = "performSecurityAnalysis"
    /\ \E draw \in RandomDraws :
          security' = performSecurityAnalysisRun(blockchainData, draw)
    /\ pc' = "analyzeTransactions"
    /\ UNCHANGED <<contractAddress, onChain, blockchainData, tokenInfo, liquidityInfo,
                   transactionData, auditResult, calls, registry, last, outsideAudit>>

\* Steps 4 to 6 of auditToken.  analyzeLiquidity returns values drawn from
\* Math.random; analyzeOwner returns values that nothing reads;
\* analyzeTransactions draws its own values, sends updateTokenMetrics with
\* them, and catches what that throws.
analyzeTransactions ==
    /\ pc = "analyzeTransactions"
    /\ Settles(IF signer = ZeroAddress THEN {} ELSE {"updateTokenMetrics"})
    /\ pc' = "submitAudit"
    /\ \E pool \in LiquidityDraws, draw \in TransactionDraws :
          /\ liquidityInfo' = [totalLiquidity |-> toString(pool[1]),
                           liquidityLocked |-> pool[2]]
          /\ transactionData' = [totalTransactions |-> draw[1], uniqueHolders |-> draw[2]]
          /\ IF signer = ZeroAddress
             THEN UNCHANGED <<registry, last, calls>>
             ELSE LET result == IF onlyAuthorizedAuditor(signer) THEN OK
                                ELSE ErrNotAuthorized IN
                  /\ calls' = [calls EXCEPT !.updateTokenMetrics = @ + 1]
                  /\ last' = Call("updateTokenMetrics", signer, result)
                  /\ IF result = OK
                     THEN updateTokenMetricsBody(contractAddress, draw[1], draw[2],
                                                 draw[3], draw[4])
                     ELSE UNCHANGED registry
    /\ UNCHANGED <<contractAddress, onChain, blockchainData, tokenInfo, security,
                   auditResult, outsideAudit>>

\* Mutant: submitAuditToBlockchain without its check of this.signer.
submitAuditToBlockchain_NoWalletCheck ==
    /\ pc = "submitAudit"
    /\ Settles({"submitAuditResult"})
    /\ pc' = "enrich"
    /\ LET result == submitAuditResultCheck(signer, contractAddress, security.riskScore) IN
       /\ calls' = [calls EXCEPT !.submitAuditResult = @ + 1]
       /\ last' = Call("submitAuditResult", signer, result)
       /\ IF result = OK
          THEN submitAuditResultBody(signer, contractAddress, security.riskScore,
                                     security.riskLevel = "CRITICAL",
                                     ~security.canSell, "")
          ELSE UNCHANGED registry
    /\ UNCHANGED <<contractAddress, onChain, blockchainData, tokenInfo, security,
                   liquidityInfo, transactionData, auditResult, outsideAudit>>

\* Step 7 of auditToken: submitAuditToBlockchain, and the catch clause around
\* it.
submitAuditToBlockchain ==
    /\ pc = "submitAudit"
    /\ Settles(IF signer = ZeroAddress THEN {} ELSE {"submitAuditResult"})
    /\ pc' = "enrich"
    /\ IF signer = ZeroAddress
       THEN UNCHANGED <<registry, last, calls>>
       ELSE LET result == submitAuditResultCheck(signer, contractAddress,
                                                 security.riskScore) IN
            /\ calls' = [calls EXCEPT !.submitAuditResult = @ + 1]
            /\ last' = Call("submitAuditResult", signer, result)
            /\ IF result = OK
               THEN submitAuditResultBody(signer, contractAddress, security.riskScore,
                                          security.riskLevel = "CRITICAL",
                                          ~security.canSell, "")
               ELSE UNCHANGED registry
    /\ UNCHANGED <<contractAddress, onChain, blockchainData, tokenInfo, security,
                   liquidityInfo, transactionData, auditResult, outsideAudit>>

\* aiRiskPredictionService.predictRisk and socialSentimentService
\* .analyzeSentiment catch every error of their remote calls and return their
\* fallback value.
ServiceOutcomes == {Fetched, Fallback}

\* vulnerabilityAnalysisService.analyzeVulnerabilities returns, or throws and
\* leaves the field undefined.
VulnerabilityOutcomes == {Fetched, Absent}

\* Mutant: the field is requested whatever its toggle.
AttachedIfEnabled_Always(feature, outcome) == outcome

\* The optional field guarded by if (environment.isFeatureEnabled(feature)).
AttachedIfEnabled(feature, outcome) ==
    IF environment_isFeatureEnabled(feature) THEN outcome ELSE Absent

\* The fetch calls awaited for the enrichments: callOpenAI and
\* getTwitterSentiment, which are reached with their toggle on.
EnrichmentFetches ==
    {op \in {"aiPrediction"} : environment_isFeatureEnabled("enableAiRiskPrediction")}
    \cup {op \in {"socialSentiment"} : environment_isFeatureEnabled("enableSocialSentiment")}

\* Steps 8 to 10 of auditToken, and its return.
attachEnrichments ==
    /\ pc = "enrich"
    /\ Settles(EnrichmentFetches)
    /\ pc' = "returned"
    /\ \E ai \in ServiceOutcomes, social \in ServiceOutcomes, vulnerability \in VulnerabilityOutcomes :
          auditResult' =
              [returned |-> TRUE, thrown |-> FALSE, tokenInfo |-> tokenInfo,
               security |-> security, liquidity |-> liquidityInfo,
               transactions |-> transactionData,
               aiPrediction |-> AttachedIfEnabled("enableAiRiskPrediction", ai),
               socialSentiment |-> AttachedIfEnabled("enableSocialSentiment", social),
               vulnerabilityAnalysis |-> vulnerability]
    /\ UNCHANGED <<contractAddress, onChain, blockchainData, tokenInfo, security,
                   liquidityInfo, transactionData, calls, registry, last, outsideAudit>>

\* The addresses auditToken is called with.
AuditTargets == {TokenContract}

\* The tokens audited: <<chain profile, read profile>>.  No code at the
\* address; a contract no check flags; one every check flags, whose reads all
\* revert; one with 0 decimals scored 100; one scored 75 whose name() and
\* decimals() revert.
AuditedTokenKinds ==
    {<<NoCodeProfile, ReadProfile({}, 6)>>,
     <<[hasCode |-> TRUE, ownerCall |-> Deployer, addrHash |-> 1,
        mintHash |-> [ts \in Times |-> ts % 2], ownerHash |-> 1],
       ReadProfile({}, 6)>>,
     <<[hasCode |-> TRUE, ownerCall |-> Reverts, addrHash |-> 0,
        mintHash |-> [ts \in Times |-> (ts + 1) % 2], ownerHash |-> 1],
       ReadProfile(MetadataReads, 6)>>,
     <<[hasCode |-> TRUE, ownerCall |-> Deployer, addrHash |-> 0,
        mintHash |-> [ts \in Times |-> ts % 2], ownerHash |-> 0],
       ReadProfile({}, 0)>>,
     <<[hasCode |-> TRUE, ownerCall |-> Deployer, addrHash |-> 10,
        mintHash |-> [ts \in Times |-> (ts + 1) % 2], ownerHash |-> 1],
       ReadProfile({"name", "decimals"}, 6)>>}

\* ScamDetector after the deployer's transactions of the first block: none,
\* analyzeToken(token), or addKnownScam(token) and then analyzeToken(token).
DetectorAfter(history, token) ==
    /\ scamOwner = Deployer
    /\ trustedTokens = [t \in Address |-> FALSE]
    /\ knownScams = [t \in Address |-> t = token /\ history = "knownScam"]
    /\ scamAnalysis = [t \in Address |-> IF t = token /\ history # "none"
                                         THEN analyzeTokenRun(token).flags
                                         ELSE ZeroScamFlags]
    /\ scamLast = IF history = "none" THEN NoScamCall
                  ELSE ScamCall("analyzeToken", Deployer, token, OK,
                                analyzeTokenRun(token).flags, analyzeTokenRun(token).logs)

\* TokenAnalyzer after them: none, or analyzeToken(token).
AnalyzerAfter(analyzed, token) ==
    LET done == TokenAnalyzer_analyzeTokenRun(NOT_ENTERED, Deployer, token) IN
    /\ analyzerOwner = Deployer
    /\ analyzerStatus = NOT_ENTERED
    /\ securityAnalysis = [t \in Address |-> ZeroSecurityFlags]
    /\ analyzedTokens = [t \in Address |-> IF analyzed /\ t = token THEN done.info
                                           ELSE ZeroTokenInfo]
    /\ analyzerLast = IF analyzed
                      THEN AnalyzerCall("analyzeToken", Deployer, <<token>>, OK,
                                        <<done.info>>, done.logs)
                      ELSE NoAnalyzerCall

\* AuditRegistry after them: none; submitAuditResult(token, 57, true, false,
\* "QmA"); or removeAuthorizedAuditor(deployer) and then renounceOwnership(),
\* which leave nobody authorized.
RegistryAfter(history, token) ==
    /\ status = NOT_ENTERED
    /\ tokenMetrics = [t \in Address |-> ZeroTokenMetrics]
    /\ frames = <<>>
    /\ now = 1
    /\ owner = IF history = "renounced" THEN ZeroAddress ELSE Deployer
    /\ authorizedAuditors = [a \in Address |-> a = Deployer /\ history # "renounced"]
    /\ auditRecords = [t \in Address |->
                          IF history = "audited" /\ t = token
                          THEN NewAuditRecord(Deployer, token, 57, TRUE, FALSE, "QmA")
                          ELSE ZeroAuditRecord]
    /\ auditCount = [a \in Address |-> IF history = "audited" /\ a = Deployer THEN 1 ELSE 0]
    /\ events = IF history = "audited"
                THEN <<AuditCompleted(token, Deployer, 57, TRUE, now)>> ELSE <<>>
    /\ last = IF history = "audited" THEN Call("submitAuditResult", Deployer, OK)
              ELSE IF history = "renounced" THEN Call("renounceOwnership", Deployer, OK)
              ELSE NoCall

\* What happened before auditToken is called: <<on ScamDetector, on
\* TokenAnalyzer, on AuditRegistry>>.  A token without code cannot have been
\* analysed, unless it is a known scam; the audited token is one that both
\* contracts analysed.
Histories ==
    {h \in {"none", "analyzed", "knownScam"} \X BOOLEAN \X {"none", "audited", "renounced"} :
        /\ (h[1] = "analyzed" \/ h[2]) => hasCode[TokenContract]
        /\ h[3] = "audited" => (h[1] = "analyzed" /\ h[2])}

\* The wallet connected: none, or the deployer's.
Wallets == {ZeroAddress, Deployer}

AuditInit ==
    /\ \E k \in AuditedTokenKinds : ChainIs(k[1]) /\ ReadsAre(k[2])
    /\ \E h \in Histories :
          /\ RegistryAfter(h[3], TokenContract)
          /\ DetectorAfter(h[1], TokenContract)
          /\ AnalyzerAfter(h[2], TokenContract)
    /\ AuditServiceIdle
    /\ signer \in Wallets
    /\ features \in [{"enableAiRiskPrediction", "enableSocialSentiment"} -> BOOLEAN]
    /\ providerConnection \in BOOLEAN
    /\ unresponsive = {}

AuditNext ==
    \/ \E a \in AuditTargets : auditToken(a)
    \/ analyzeTokenOnChain_getTokenInfo
    \/ analyzeTokenOnChain_getScamAnalysis
    \/ analyzeTokenOnChain_isTokenAudited
    \/ analyzeTokenOnChain_getAuditRecord
    \/ getEnhancedTokenInfo
    \/ performSecurityAnalysis
    \/ analyzeTransactions
    \/ submitAuditToBlockchain
    \/ attachEnrichments

SpecAudit == AuditInit /\ [][AuditNext]_vars

\* ------------------------------------------------------------------ audit service and other auditors
\* auditToken for a token contract that both analysers hold results of, and
\* that was audited before or not, while other clients send submitAuditResult
\* for the same token and blocks are mined between its awaits.
ConcurrentInit ==
    /\ \E k \in AuditedTokenKinds :
          /\ k[1].hasCode /\ k[1].addrHash = 1
          /\ ChainIs(k[1]) /\ ReadsAre(k[2])
    /\ \E h \in Histories :
          /\ h[1] = "analyzed" /\ h[2] /\ h[3] \in {"none", "audited"}
          /\ RegistryAfter(h[3], TokenContract)
          /\ DetectorAfter(h[1], TokenContract)
          /\ AnalyzerAfter(h[2], TokenContract)
    /\ AuditServiceIdle
    /\ signer \in Wallets
    /\ features = [enableAiRiskPrediction |-> FALSE, enableSocialSentiment |-> FALSE]
    /\ providerConnection = TRUE
    /\ unresponsive = {}

ConcurrentNext ==
    \/ AuditNext
    \/ \E s \in Senders, x \in AuditSamples :
            submitAuditResult(s, TokenContract, x[1], x[2], x[3], x[4])
    \/ NextBlock

SpecConcurrent == ConcurrentInit /\ [][ConcurrentNext]_vars

\* ------------------------------------------------------------------ audit service and silent upstreams
\* auditToken for a token contract that both analysers hold results of, with
\* every toggle setting, where at most one of the remote calls never answers.
UpstreamInit ==
    /\ \E k \in AuditedTokenKinds :
          /\ k[1].hasCode /\ k[1].addrHash = 1
          /\ ChainIs(k[1]) /\ ReadsAre(k[2])
    /\ \E h \in Histories :
          /\ h[1] = "analyzed" /\ h[2] /\ h[3] \in {"none", "audited"}
          /\ RegistryAfter(h[3], TokenContract)
          /\ DetectorAfter(h[1], TokenContract)
          /\ AnalyzerAfter(h[2], TokenContract)
    /\ AuditServiceIdle
    /\ signer \in Wallets
    /\ features \in [{"enableAiRiskPrediction", "enableSocialSentiment"} -> BOOLEAN]
    /\ providerConnection = TRUE
    /\ unresponsive \in {{}} \cup {{op} : op \in Upstreams}

\* The event loop runs the code after an await once its promises have
\* settled: a step of auditToken that stays possible is taken.
SpecUpstream == UpstreamInit /\ [][AuditNext]_vars /\ WF_vars(AuditNext)

\* ------------------------------------------------------------------ properties
\* The inputs of the calls, for the properties that range over every call.
SubmitInputs == Senders \X Address \X AuditSamples

\* The step is the call submitAuditResult(c[2], c[3][1..4]) sent by c[1]; what
\* it leaves in last is compared first.
IsSubmit(c) ==
    /\ last'.op = "submitAuditResult" /\ last'.sender = c[1]
    /\ submitAuditResult(c[1], c[2], c[3][1], c[3][2], c[3][3], c[3][4])

\* a may submit audits: explicitly authorized, or the owner.
Authorized(a) == authorizedAuditors[a] \/ a = owner

\* The storage a submission may not touch when it fails.
Untouched == UNCHANGED <<auditRecords, auditCount, tokenMetrics, authorizedAuditors,
                         owner, events>>

\* The tokens with a successful submission, by the log.
IsAuditEvent(e) == e.name = "AuditCompleted"
AuditEvents == {i \in DOMAIN events : IsAuditEvent(events[i])}

\* C1: a submitAuditResult call by an identity that is neither authorized nor
\* the owner fails with "Not authorized auditor" and leaves auditRecords,
\* auditCount, tokenMetrics, authorizedAuditors and the event log as they were,
\* for every token, score and flags.
C1_UnauthorizedSubmitRejected ==
    [][\A c \in SubmitInputs :
          (~Authorized(c[1]) /\ IsSubmit(c))
              => (last'.result = ErrNotAuthorized /\ Untouched)]_vars

\* C1 witness: an unauthorized identity's submission has just been rejected in a
\* state that holds an audit record.
C1_Witness ==
    /\ last.op = "submitAuditResult" /\ last.result = ErrNotAuthorized
    /\ ~Authorized(last.sender)
    /\ \E t \in Address : auditRecords[t] # ZeroAuditRecord

\* C2 as stated: a submitAuditResult call with riskScore > 100 fails with the
\* out-of-range-score error whoever the caller is, and changes no state.
C2_Original ==
    [][\A c \in SubmitInputs :
          (c[3][1] > 100 /\ IsSubmit(c))
              => (last'.result = ErrRiskScore /\ Untouched)]_vars

\* C2 amended: a submitAuditResult call with riskScore > 100 always fails and
\* changes no state; the error is the out-of-range-score error when the caller is
\* authorized and the token address is not zero, the authorization error when
\* the caller is not authorized, and the invalid-token error when the caller is
\* authorized and the token address is zero.
C2_ScoreAbove100Rejected ==
    [][\A c \in SubmitInputs :
          (c[3][1] > 100 /\ IsSubmit(c))
              => /\ Untouched
                 /\ last'.result =
                        IF ~Authorized(c[1]) THEN ErrNotAuthorized
                        ELSE IF c[2] = ZeroAddress THEN ErrInvalidToken
                        ELSE ErrRiskScore]_vars

\* C2 witness: an authorized caller's submission has just been rejected for its
\* score, in a state that holds an audit record.
C2_Witness ==
    /\ last.op = "submitAuditResult" /\ last.result = ErrRiskScore
    /\ Authorized(last.sender)
    /\ \E t \in Address : auditRecords[t] # ZeroAuditRecord

\* C3: every stored record with a non-zero timestamp is stored under its own
\* token address, which is not the zero address, and has a score in 0..100;
\* nothing is stored under the zero address; and whenever a record is written,
\* its auditor is authorized or the owner in the state the write is made in.
C3_StoredRecordsValid ==
    /\ [](/\ auditRecords[ZeroAddress] = ZeroAuditRecord
          /\ \A t \in Address :
                auditRecords[t].auditTimestamp # 0
                    => /\ auditRecords[t].tokenAddress = t
                       /\ t # ZeroAddress
                       /\ auditRecords[t].riskScore \in 0..100)
    /\ [][\A t \in Address :
            auditRecords'[t] # auditRecords[t]
                => Authorized(auditRecords'[t].auditor)]_vars

\* C3 witness: a record is stored whose auditor is no longer authorized.
C3_Witness ==
    \E t \in Address :
        /\ auditRecords[t].auditTimestamp # 0
        /\ auditRecords[t].riskScore = 100
        /\ ~Authorized(auditRecords[t].auditor)

\* C4: after a successful submitAuditResult(t, score, isScam, isHoneypot, ref)
\* by c, the record of t is exactly (t, score, isScam, isHoneypot,
\* block.timestamp, c, ref) and the record of every other token is as before.
C4_SubmitOverwritesRecord ==
    [][\A c \in SubmitInputs :
          (IsSubmit(c) /\ last'.result = OK)
              => /\ getAuditRecord(c[2])' =
                        [tokenAddress |-> c[2], riskScore |-> c[3][1],
                         isScam |-> c[3][2], isHoneypot |-> c[3][3],
                         auditTimestamp |-> now', auditor |-> c[1],
                         ipfsHash |-> c[3][4]]
                 /\ \A u \in Address \ {c[2]} :
                        auditRecords'[u] = auditRecords[u]]_vars

\* C4 witness: a token has just been audited for the second time, by another
\* auditor, in a later block and with other values than the first time.
C4_Witness ==
    /\ last.op = "submitAuditResult" /\ last.result = OK
    /\ Len(events) = 2
    /\ IsAuditEvent(events[1]) /\ IsAuditEvent(events[2])
    /\ events[1].token = events[2].token
    /\ events[1].auditor # events[2].auditor
    /\ events[1].riskScore # events[2].riskScore
    /\ events[1].timestamp # events[2].timestamp

\* C5: once isTokenAudited(t) is true it is true in every later state, whatever
\* is called next.
C5_AuditedIsOneWay ==
    [][\A t \in Address : isTokenAudited(t) => isTokenAudited(t)']_vars

\* C5 witness: a token is audited, and the auditor that wrote its record has
\* been revoked since.
C5_Witness ==
    \E t \in Address :
        /\ isTokenAudited(t)
        /\ ~Authorized(auditRecords[t].auditor)
        /\ last.op = "removeAuthorizedAuditor" /\ last.result = OK

\* The calls of the other functions, for the properties that range over them.
MetricsInputs == Senders \X Address \X MetricSamples
IsUpdateMetrics(c) ==
    /\ last'.op = "updateTokenMetrics" /\ last'.sender = c[1]
    /\ updateTokenMetrics(c[1], c[2], c[3][1], c[3][2], c[3][3], c[3][4])

IsMetricsEvent(e) == e.name = "TokenMetricsUpdated"
MetricsEvents == {i \in DOMAIN events : IsMetricsEvent(events[i])}

\* The successful submissions for token t, and those sent by a, by the log.
SubmissionsFor(t) == {i \in AuditEvents : events[i].token = t}
SubmissionsBy(a) == {i \in AuditEvents : events[i].auditor = a}
MetricsUpdatesFor(t) == {i \in MetricsEvents : events[i].token = t}

\* C6 as stated: isTokenAudited(t) is true exactly when a submission for t has
\* succeeded, and for a token with no successful submission getAuditRecord(t)
\* and getTokenMetrics(t) are zero-valued, as is getAuditorStats(a) for an
\* identity with no successful submission.
C6_Original ==
    /\ \A t \in Address :
        /\ isTokenAudited(t) <=> SubmissionsFor(t) # {}
        /\ SubmissionsFor(t) = {}
              => /\ getAuditRecord(t) = ZeroAuditRecord
                 /\ getTokenMetrics(t) = ZeroTokenMetrics
    /\ \A a \in Address : SubmissionsBy(a) = {} => getAuditorStats(a) = 0

\* C6 amended: isTokenAudited(t) is true exactly when a submission for t has
\* succeeded; for a token with no successful submission getAuditRecord(t) is the
\* zero record; getTokenMetrics(t) is zero-valued for a token with no successful
\* updateTokenMetrics (metrics can be written for a token that was never
\* audited); getAuditorStats(a) is zero for an identity with no successful
\* submission.
C6_AuditedIffSubmitted ==
    /\ \A t \in Address :
        /\ isTokenAudited(t) <=> SubmissionsFor(t) # {}
        /\ SubmissionsFor(t) = {} => getAuditRecord(t) = ZeroAuditRecord
        /\ MetricsUpdatesFor(t) = {} => getTokenMetrics(t) = ZeroTokenMetrics
    /\ \A a \in Address : SubmissionsBy(a) = {} => getAuditorStats(a) = 0

\* C6 witness: one token is audited and another, never audited, has metrics.
C6_Witness ==
    \E t, u \in Address :
        /\ isTokenAudited(t)
        /\ ~isTokenAudited(u)
        /\ getAuditRecord(u) = ZeroAuditRecord
        /\ getTokenMetrics(u) # ZeroTokenMetrics

\* C7: auditCount[a] is the number of successful submitAuditResult calls by a:
\* a successful submission by a adds exactly 1 to auditCount[a] and leaves the
\* other counts alone, and no other step (a rejected submission, a metrics
\* update, a grant, a revocation, an ownership change) changes any count.
C7_AuditCountCountsSubmissions ==
    /\ [](\A a \in Address : auditCount[a] = Cardinality(SubmissionsBy(a)))
    /\ [][/\ \A c \in SubmitInputs :
                (IsSubmit(c) /\ last'.result = OK)
                    => auditCount' = [auditCount EXCEPT ![c[1]] = @ + 1]
          /\ ~(last'.op = "submitAuditResult" /\ last'.result = OK)
                    => auditCount' = auditCount
          /\ \A a \in Address : auditCount'[a] >= auditCount[a]]_vars

\* C7 witness: an auditor with an accepted submission has just been revoked and
\* keeps its count, while another auditor has a count of its own.
C7_Witness ==
    \E a, b \in Senders :
        /\ a # b
        /\ auditCount[a] = 1 /\ auditCount[b] = 1
        /\ ~Authorized(a)
        /\ last.op = "removeAuthorizedAuditor" /\ last.result = OK

RECURSIVE SumOver(_, _)
SumOver(f, S) ==
    IF S = {} THEN 0
    ELSE LET x == CHOOSE y \in S : TRUE IN f[x] + SumOver(f, S \ {x})

\* C8: a submitAuditResult call either replaces the record, adds 1 to the
\* caller's count and emits exactly one AuditCompleted event whose token,
\* auditor, score, isScam and timestamp are those of the stored record, or it
\* changes nothing and emits nothing; the number of AuditCompleted events equals
\* the sum of all auditCount values.
C8_SubmitAllOrNothing ==
    /\ [](Cardinality(AuditEvents) = SumOver(auditCount, Address))
    /\ [][\A c \in SubmitInputs :
            IsSubmit(c)
                => \/ /\ last'.result # OK
                      /\ UNCHANGED registry
                   \/ /\ last'.result = OK
                      /\ auditRecords'[c[2]] # ZeroAuditRecord
                      /\ auditRecords'[c[2]].auditor = c[1]
                      /\ auditCount'[c[1]] = auditCount[c[1]] + 1
                      /\ Len(events') = Len(events) + 1
                      /\ SubSeq(events', 1, Len(events)) = events
                      /\ LET e == events'[Len(events')]
                             r == auditRecords'[c[2]] IN
                            /\ IsAuditEvent(e)
                            /\ e.token = r.tokenAddress
                            /\ e.auditor = r.auditor
                            /\ e.riskScore = r.riskScore
                            /\ e.isScam = r.isScam
                            /\ e.timestamp = r.auditTimestamp]_vars

\* C8 witness: an accepted submission with isScam and isHoneypot different has
\* been followed by a rejected one.
C8_Witness ==
    /\ last.op = "submitAuditResult" /\ last.result # OK
    /\ \E i \in AuditEvents :
          auditRecords[events[i].token].isScam # auditRecords[events[i].token].isHoneypot

\* C9: a submitAuditResult call by the owner with a non-zero token address and
\* a score of at most 100 succeeds, and an updateTokenMetrics call by the owner
\* succeeds, in every reachable state, explicitly authorized or not.
C9_OwnerAlwaysAuthorized ==
    [][/\ \A c \in SubmitInputs :
            (c[1] = owner /\ c[2] # ZeroAddress /\ c[3][1] <= 100 /\ IsSubmit(c))
                => last'.result = OK
       /\ \A c \in MetricsInputs :
            (c[1] = owner /\ IsUpdateMetrics(c)) => last'.result = OK]_vars

\* C9 witness: the owner, removed from authorizedAuditors, has just submitted an
\* audit successfully.
C9_Witness ==
    /\ last.op = "submitAuditResult" /\ last.result = OK
    /\ last.sender = owner
    /\ ~authorizedAuditors[owner]

\* C10: addAuthorizedAuditor and removeAuthorizedAuditor called by anyone but
\* the owner fail and leave authorizedAuditors unchanged, and authorizedAuditors
\* changes only in a successful call of one of the two by the owner.
C10_OnlyOwnerChangesAuthorization ==
    [][/\ \A s \in Senders, a \in Senders :
            (s # owner /\ (addAuthorizedAuditor(s, a) \/ removeAuthorizedAuditor(s, a)))
                => (last'.result = ErrNotOwner /\ UNCHANGED authorizedAuditors)
       /\ authorizedAuditors' # authorizedAuditors
            => /\ last'.op \in {"addAuthorizedAuditor", "removeAuthorizedAuditor"}
               /\ last'.result = OK
               /\ last'.sender = owner]_vars

\* C10 witness: an authorized auditor that is not the owner has just been
\* refused a grant.
C10_Witness ==
    /\ last.op = "addAuthorizedAuditor" /\ last.result = ErrNotOwner
    /\ last.sender # owner
    /\ authorizedAuditors[last.sender]

\* C11: granting and revoking are idempotent.  A grant by the owner succeeds and
\* leaves the auditor authorized; made for an auditor that is already
\* authorized it changes nothing, so two grants leave the state one grant
\* leaves.  A revocation by the owner succeeds and leaves the auditor
\* unauthorized, however often it was granted; made for an identity that is not
\* authorized it succeeds and changes nothing.
C11_GrantRevokeIdempotent ==
    [][\A s \in Senders, a \in Senders :
          /\ (s = owner /\ addAuthorizedAuditor(s, a))
                => /\ last'.result = OK
                   /\ authorizedAuditors' = [authorizedAuditors EXCEPT ![a] = TRUE]
                   /\ authorizedAuditors[a] => UNCHANGED registry
          /\ (s = owner /\ removeAuthorizedAuditor(s, a))
                => /\ last'.result = OK
                   /\ authorizedAuditors' = [authorizedAuditors EXCEPT ![a] = FALSE]
                   /\ ~authorizedAuditors[a] => UNCHANGED registry]_vars

\* C11 witness: a grant has just succeeded and the deployer, authorized since
\* the constructor, is still the only authorized identity: the grant was made
\* for an identity that was authorized already.
C11_Witness ==
    /\ last.op = "addAuthorizedAuditor" /\ last.result = OK
    /\ owner = Deployer
    /\ authorizedAuditors = [a \in Address |-> a = Deployer]
    /\ \A a \in Address : auditCount[a] = 0

\* C12: an updateTokenMetrics call by an identity that is neither authorized
\* nor the owner fails with "Not authorized auditor" and changes nothing; by any
\* other caller it succeeds, replaces the token's metrics by exactly the
\* snapshot passed and block.timestamp, and leaves auditRecords, auditCount,
\* authorizedAuditors, every other token's metrics and isTokenAudited of every
\* token as they were.
C12_MetricsUpdateReplaces ==
    [][\A c \in MetricsInputs :
          IsUpdateMetrics(c)
              => IF ~Authorized(c[1])
                 THEN last'.result = ErrNotAuthorized /\ Untouched
                 ELSE /\ last'.result = OK
                      /\ tokenMetrics' = [tokenMetrics EXCEPT ![c[2]] =
                            [totalTransactions |-> c[3][1], uniqueHolders |-> c[3][2],
                             liquidityUSD |-> c[3][3], liquidityLocked |-> c[3][4],
                             lastUpdated |-> now]]
                      /\ UNCHANGED <<auditRecords, auditCount, authorizedAuditors>>
                      /\ \A t \in Address : isTokenAudited(t)' = isTokenAudited(t)]_vars

\* C12 witness: the metrics of a token have just been replaced a second time,
\* by a snapshot that differs from the first, and the token was never audited.
C12_Witness ==
    /\ last.op = "updateTokenMetrics" /\ last.result = OK
    /\ Len(events) = 2
    /\ IsMetricsEvent(events[1]) /\ IsMetricsEvent(events[2])
    /\ events[1].token = events[2].token
    /\ events[1].transactions # events[2].transactions
    /\ getTokenMetrics(events[2].token).totalTransactions = events[2].transactions
    /\ ~getTokenMetrics(events[2].token).liquidityLocked
    /\ ~isTokenAudited(events[2].token)

\* ------------------------------------------------------------------ properties of ScamDetector
\* The inputs of analyzeToken, for the properties that range over every call.
AnalyzeInputs == Senders \X Tokens

\* The step is the call analyzeToken(c[2]) sent by c[1].
IsAnalyze(c) == analyzeToken(c[1], c[2])

\* The events of a kind among those the latest transaction emitted.
LogsNamed(logs, name) == {i \in DOMAIN logs : logs[i].name = name}

\* What the five checks would find for t now: every one of them.
AllChecksFire(t) ==
    /\ hasCode[t]
    /\ checkForHiddenMint(t) /\ checkForBlacklist(t) /\ checkForHighTax(t)
    /\ checkForLiquidityDrain(t) /\ checkOwnershipIssues(t)

\* C13: for every address in knownScams, analyzeToken returns riskScore 100 and
\* isHoneypot true with the five other flags false, and stores exactly that
\* value for the address, whatever the five checks would find.
C13_KnownScamScore100 ==
    [][\A c \in AnalyzeInputs :
          (knownScams[c[2]] /\ IsAnalyze(c))
              => /\ scamLast'.result = OK
                 /\ scamLast'.flags =
                        [hasHiddenMint |-> FALSE, hasBlacklist |-> FALSE,
                         hasHighTax |-> FALSE, hasLiquidityDrain |-> FALSE,
                         hasOwnershipIssues |-> FALSE, isHoneypot |-> TRUE,
                         riskScore |-> 100]
                 /\ getScamAnalysis(c[2])' = scamLast'.flags]_vars

\* C14: for an address in trustedTokens and not in knownScams, analyzeToken
\* returns riskScore 0 with all six flags false, stores exactly that value for
\* the address, and emits no ScamDetected event (no event at all).
C14_TrustedTokenIsClean ==
    [][\A c \in AnalyzeInputs :
          (trustedTokens[c[2]] /\ ~knownScams[c[2]] /\ IsAnalyze(c))
              => /\ scamLast'.result = OK
                 /\ scamLast'.flags =
                        [hasHiddenMint |-> FALSE, hasBlacklist |-> FALSE,
                         hasHighTax |-> FALSE, hasLiquidityDrain |-> FALSE,
                         hasOwnershipIssues |-> FALSE, isHoneypot |-> FALSE,
                         riskScore |-> 0]
                 /\ getScamAnalysis(c[2])' = scamLast'.flags
                 /\ scamLast'.logs = <<>>]_vars

\* C14 witness: a trusted token for which all five checks would fire has just
\* been analysed as clean.
C14_Witness ==
    /\ scamLast.op = "analyzeToken" /\ scamLast.result = OK
    /\ trustedTokens[scamLast.token] /\ ~knownScams[scamLast.token]
    /\ AllChecksFire(scamLast.token)
    /\ getScamAnalysis(scamLast.token) = ZeroScamFlags

\* C15: for an address in both knownScams and trustedTokens, analyzeToken gives
\* the known-scam outcome: isHoneypot is true in the value returned and in the
\* value stored, and the ScamDetected event of a known scam is emitted; it is
\* never the trusted outcome.
C15_KnownScamBeatsTrusted ==
    [][\A c \in AnalyzeInputs :
          (knownScams[c[2]] /\ trustedTokens[c[2]] /\ IsAnalyze(c))
              => /\ scamLast'.result = OK
                 /\ scamLast'.flags.isHoneypot
                 /\ getScamAnalysis(c[2])'.isHoneypot
                 /\ scamLast'.logs = <<ScamDetected(c[2], "Known scam token", now)>>
                 /\ scamLast'.flags # ZeroScamFlags]_vars

\* C15 witness: a token that is in both lists has just been analysed as a
\* honeypot.
C15_Witness ==
    /\ scamLast.op = "analyzeToken" /\ scamLast.result = OK
    /\ knownScams[scamLast.token] /\ trustedTokens[scamLast.token]
    /\ getScamAnalysis(scamLast.token).isHoneypot
    /\ Len(scamLast.logs) = 1

\* The weights of the claim, applied to the five flags of f.
Bit(b) == IF b THEN 1 ELSE 0
ClaimedScore(f) ==
    25 * Bit(f.hasHiddenMint) + 30 * Bit(f.hasBlacklist) + 20 * Bit(f.hasHighTax)
    + 35 * Bit(f.hasLiquidityDrain) + 15 * Bit(f.hasOwnershipIssues)

\* The 32 combinations of the five flags.
FlagCombinations ==
    [hasHiddenMint : BOOLEAN, hasBlacklist : BOOLEAN, hasHighTax : BOOLEAN,
     hasLiquidityDrain : BOOLEAN, hasOwnershipIssues : BOOLEAN]

\* The token of c is in neither list and analyzeToken(c) has returned.
IsHeuristicAnalyze(c) ==
    /\ ~knownScams[c[2]] /\ ~trustedTokens[c[2]]
    /\ IsAnalyze(c)
    /\ scamLast'.result = OK

\* C16: for an address in neither list, the riskScore analyzeToken returns and
\* stores is 25*hasHiddenMint + 30*hasBlacklist + 20*hasHighTax +
\* 35*hasLiquidityDrain + 15*hasOwnershipIssues of the flags it returns, and
\* the weighted sum the code computes is that number for each of the 32
\* combinations of the five flags.
C16_WeightedRiskScore ==
    /\ [](\A f \in FlagCombinations :
            WeightedRiskScore(f.hasHiddenMint, f.hasBlacklist, f.hasHighTax,
                              f.hasLiquidityDrain, f.hasOwnershipIssues)
                = ClaimedScore(f))
    /\ [][\A c \in AnalyzeInputs :
            IsHeuristicAnalyze(c)
                => /\ scamLast'.flags.riskScore = ClaimedScore(scamLast'.flags)
                   /\ getScamAnalysis(c[2])' = scamLast'.flags]_vars

\* C16 witness: a token in neither list has just been analysed with hidden
\* mint and high tax found and blacklist, liquidity drain and ownership issues
\* not found.
C16_Witness ==
    /\ scamLast.op = "analyzeToken" /\ scamLast.result = OK
    /\ ~knownScams[scamLast.token] /\ ~trustedTokens[scamLast.token]
    /\ scamLast.flags.hasHiddenMint /\ scamLast.flags.hasHighTax
    /\ ~scamLast.flags.hasBlacklist /\ ~scamLast.flags.hasLiquidityDrain
    /\ ~scamLast.flags.hasOwnershipIssues
    /\ getScamAnalysis(scamLast.token).riskScore = 45

\* C17: for an address in neither list, isHoneypot is true exactly when the
\* weighted score is at least 70 (false at 69, true at 70), in the value
\* returned and stored, and the call emits a ScamDetected event, naming the
\* token, exactly when isHoneypot is true.
C17_HoneypotThreshold ==
    /\ [](/\ ~HoneypotAt(69) /\ HoneypotAt(70)
          /\ \A f \in FlagCombinations :
                HoneypotAt(ClaimedScore(f)) <=> ClaimedScore(f) >= 70)
    /\ [][\A c \in AnalyzeInputs :
            IsHeuristicAnalyze(c)
                => /\ scamLast'.flags.isHoneypot <=> ClaimedScore(scamLast'.flags) >= 70
                   /\ getScamAnalysis(c[2])'.isHoneypot = scamLast'.flags.isHoneypot
                   /\ LogsNamed(scamLast'.logs, "ScamDetected") # {}
                        <=> scamLast'.flags.isHoneypot
                   /\ \A i \in DOMAIN scamLast'.logs :
                        scamLast'.logs[i].token = c[2]]_vars

\* C17 witness: a token in neither list has just been analysed with a score of
\* 75, the smallest the checks can produce that is not below 70, and flagged as
\* a honeypot with a ScamDetected event.
C17_Witness ==
    /\ scamLast.op = "analyzeToken" /\ scamLast.result = OK
    /\ ~knownScams[scamLast.token] /\ ~trustedTokens[scamLast.token]
    /\ scamLast.flags.riskScore = 75
    /\ scamLast.flags.isHoneypot
    /\ LogsNamed(scamLast.logs, "ScamDetected") # {}

\* C18: the riskScore of every ScamFlags value returned or stored by
\* analyzeToken lies in 0..100.
C18_RiskScoreInRange ==
    /\ scamLast.flags.riskScore \in 0..100
    /\ \A t \in Address : getScamAnalysis(t).riskScore \in 0..100

\* The calls that change the lists.
AdminInputs == Senders \X Tokens
IsListCall(c) ==
    \/ addKnownScam(c[1], c[2])
    \/ addTrustedToken(c[1], c[2])
    \/ removeFromScamList(c[1], c[2])

\* C19: addKnownScam, addTrustedToken and removeFromScamList fail for every
\* caller but the owner and leave both lists unchanged; the lists change only
\* in a successful call of one of the three by the owner, which sets or clears
\* the membership of its token; and analyzeToken takes the known-scam branch
\* exactly for the addresses in knownScams when it is called.
C19_OnlyOwnerChangesLists ==
    [][/\ \A c \in AdminInputs :
            (c[1] # scamOwner /\ IsListCall(c))
                => /\ scamLast'.result = ErrNotOwner
                   /\ UNCHANGED <<knownScams, trustedTokens>>
       /\ (knownScams' # knownScams \/ trustedTokens' # trustedTokens)
            => /\ scamLast'.op \in {"addKnownScam", "addTrustedToken", "removeFromScamList"}
               /\ scamLast'.result = OK
               /\ scamLast'.sender = scamOwner
       /\ \A c \in AdminInputs :
            /\ (c[1] = scamOwner /\ addKnownScam(c[1], c[2])) => knownScams'[c[2]]
            /\ (c[1] = scamOwner /\ removeFromScamList(c[1], c[2])) => ~knownScams'[c[2]]
            /\ (c[1] = scamOwner /\ addTrustedToken(c[1], c[2])) => trustedTokens'[c[2]]
       /\ \A c \in AnalyzeInputs :
            IsAnalyze(c)
                => (knownScams[c[2]]
                      <=> scamLast'.logs = <<ScamDetected(c[2], "Known scam token", now)>>)]_vars

\* C19 witness: a token that was analysed as a known scam (a honeypot with a
\* stored score of 0) has just been removed from the scam list by the owner.
C19_Witness ==
    /\ scamLast.op = "removeFromScamList" /\ scamLast.result = OK
    /\ ~knownScams[scamLast.token]
    /\ getScamAnalysis(scamLast.token).isHoneypot
    /\ getScamAnalysis(scamLast.token).riskScore = 0

\* C20 as stated: each successful addKnownScam, addTrustedToken and
\* removeFromScamList call emits an event naming the affected token.
C20_Original ==
    [][\A c \in AdminInputs :
          (IsListCall(c) /\ scamLast'.result = OK)
              => \E i \in DOMAIN scamLast'.logs : scamLast'.logs[i].token = c[2]]_vars

\* C20 amended: each successful addKnownScam emits one ScamDetected event and
\* each successful addTrustedToken one TokenVerified event, naming the token
\* and carrying block.timestamp; a successful removeFromScamList emits no
\* event; a failed call emits none.
C20_ListAdditionsEmit ==
    [][\A c \in AdminInputs :
          /\ addKnownScam(c[1], c[2])
                => scamLast'.logs =
                      IF scamLast'.result = OK
                      THEN <<ScamDetected(c[2], "Added to scam list", now)>> ELSE <<>>
          /\ addTrustedToken(c[1], c[2])
                => scamLast'.logs =
                      IF scamLast'.result = OK
                      THEN <<TokenVerified(c[2], now)>> ELSE <<>>
          /\ removeFromScamList(c[1], c[2]) => scamLast'.logs = <<>>]_vars

\* C20 witness: a token that was analysed as a known scam and is trusted as
\* well has just been removed from the scam list, and no event was emitted.
C20_Witness ==
    /\ scamLast.op = "removeFromScamList" /\ scamLast.result = OK
    /\ scamLast.logs = <<>>
    /\ trustedTokens[scamLast.token]
    /\ getScamAnalysis(scamLast.token) = KnownScamFlags

\* C21: two analyzeToken calls for the same address, with the same list
\* membership and the same token (code, owner), return the same ScamFlags
\* whatever block.timestamp is at each call: a new block, which changes
\* nothing but the time, does not change what analyzeToken returns for any
\* address.
C21_AnalysisIndependentOfTime ==
    [][\A t \in Tokens :
          (now' # now /\ UNCHANGED <<detector, chain>>)
              => analyzeTokenRun(t)'.flags = analyzeTokenRun(t).flags]_vars

\* ------------------------------------------------------------------ properties of TokenAnalyzer
BatchInputs == Senders \X BatchSamples

\* The step is the call batchAnalyze(c[2]) sent by c[1].
IsBatch(c) == batchAnalyze(c[1], c[2])

\* C22: batchAnalyze with more than 10 addresses is rejected with the
\* validation error before any state change: no TokenInfo is written or
\* overwritten, nothing is returned and no TokenAnalyzed event is emitted.
C22_BatchOverLimitRejected ==
    [][\A c \in BatchInputs :
          (Len(c[2]) > 10 /\ IsBatch(c))
              => /\ analyzerLast'.result = ErrTooManyTokens
                 /\ analyzerLast'.returned = <<>>
                 /\ analyzerLast'.logs = <<>>
                 /\ UNCHANGED analyzer]_vars

\* A batch of 11 addresses was rejected while a record it names was stored.
C22_Witness ==
    /\ analyzerLast.op = "batchAnalyze"
    /\ Len(analyzerLast.input) = 11
    /\ analyzerLast.result = ErrTooManyTokens
    /\ \E i \in 1..11 : analyzedTokens[analyzerLast.input[i]].exists

\* What analyzeToken(token), sent by sender, returns in the current state.
AnalyzeWouldReturn(sender, token) ==
    TokenAnalyzer_analyzeTokenRun(NOT_ENTERED, sender, token).info

\* C23: batchAnalyze with at most 10 addresses succeeds and returns exactly
\* one TokenInfo per input address, in input order, each equal to what
\* analyzeToken returns for that address; only the length check can make a
\* batch fail.
C23_BatchWithinLimitSucceeds ==
    [][\A c \in BatchInputs :
          (Len(c[2]) <= 10 /\ IsBatch(c))
              => /\ analyzerLast'.result = OK
                 /\ Len(analyzerLast'.returned) = Len(c[2])
                 /\ \A i \in 1..Len(c[2]) :
                        analyzerLast'.returned[i] = AnalyzeWouldReturn(c[1], c[2][i])]_vars

AnalyzeTokenInputs == Senders \X Address

\* The step is the call analyzeToken(c[2]) of TokenAnalyzer sent by c[1].
IsAnalyzeTokenInfo(c) == TokenAnalyzer_analyzeToken(c[1], c[2])

\* The read of function f on address a answers: there is a contract at a and
\* its function f does not revert.
ReadAnswers(a, f) ==
    /\ hasCode[a]
    /\ IF f = "owner" THEN ownerCall[a] # Reverts ELSE f \notin tokenReads[a].failing

\* The first n bytes of address a in hexadecimal, two characters a byte.
RECURSIVE HexOfBytes(_, _, _)
HexOfBytes(a, i, n) ==
    IF i > n THEN ""
    ELSE alphabet[(AddressBytes(a)[i] \div 16) + 1]
         \o alphabet[(AddressBytes(a)[i] % 16) + 1]
         \o HexOfBytes(a, i + 1, n)

\* The record the specification describes for address a: per field, the value
\* read where the read answers and the documented fallback where it does not.
DocumentedInfo(a) ==
    [name |-> IF ReadAnswers(a, "name") THEN tokenReads[a].name
              ELSE "0x" \o HexOfBytes(a, 1, 20),
     symbol |-> IF ReadAnswers(a, "symbol") THEN tokenReads[a].symbol
                ELSE HexOfBytes(a, 1, 3),
     decimals |-> IF ReadAnswers(a, "decimals") THEN tokenReads[a].decimals ELSE 18,
     totalSupply |-> IF ReadAnswers(a, "totalSupply") THEN tokenReads[a].totalSupply
                     ELSE "1000000000000000000000000",
     owner |-> IF ReadAnswers(a, "owner") THEN ownerCall[a] ELSE FallbackOwner,
     exists |-> TRUE]

\* C24: analyzeToken(A) of TokenAnalyzer, for a non-zero address A, never
\* fails because of what the reads on A do: it returns, field by field, the
\* value read or the fallback (symbol: the first 3 bytes of A as 6 hexadecimal
\* characters, decimals 18, totalSupply 10^24, the fixed owner), with exists
\* true even when all five reads fail, and the stored record is replaced by
\* the returned one.
C24_AnalyzeNeverFailsOnReads ==
    [][\A c \in AnalyzeTokenInputs :
          (c[2] # ZeroAddress /\ IsAnalyzeTokenInfo(c))
              => /\ analyzerLast'.result = OK
                 /\ analyzerLast'.returned = <<DocumentedInfo(c[2])>>
                 /\ analyzedTokens'[c[2]] = DocumentedInfo(c[2])]_vars

\* ------------------------------------------------------------------ properties of the audit service
RiskLevels == {"LOW", "MEDIUM", "HIGH", "CRITICAL"}

\* C25: auditToken never throws, whichever of its sources fail (a read of
\* step 1, the direct reads of the token, the wallet, the two transactions to
\* the registry, the enrichments): at every await it goes on, and what it
\* returns is composed of the token information and the security analysis it
\* computed.
C25_AuditNeverThrows ==
    /\ pc # "thrown"
    /\ ~auditResult.thrown
    /\ pc \notin {"returned", "thrown"} => ENABLED AuditNext
    /\ pc = "returned" =>
          /\ auditResult.returned
          /\ auditResult.tokenInfo = tokenInfo
          /\ tokenInfo.tier # "none"
          /\ auditResult.security = security
          /\ security.riskLevel \in RiskLevels

\* auditToken returned although step 1 failed, every direct read of the token
\* failed, both transactions were rejected and no enrichment was fetched.
C25_Witness ==
    /\ pc = "returned"
    /\ auditResult.returned
    /\ blockchainData.isNull
    /\ tokenInfo.tier = "allSettled"
    /\ \A i \in 1..4 : ~DirectReadAnswers(contractAddress, ReadOrder[i])
    /\ calls.updateTokenMetrics = 1
    /\ last = Call("submitAuditResult", signer, ErrNotAuthorized)
    /\ auditResult.aiPrediction # Fetched
    /\ auditResult.socialSentiment # Fetched
    /\ auditResult.vulnerabilityAnalysis = Absent

\* C26: for every risk score s performSecurityAnalysis computes, riskLevel is
\* LOW exactly when 0 <= s < 25, MEDIUM exactly when 25 <= s < 50, HIGH exactly
\* when 50 <= s < 75 and CRITICAL exactly when 75 <= s <= 100, and the
\* riskLevel returned is the one of the riskScore returned with it.
C26_RiskLevelBuckets ==
    /\ security.source # "none" =>
          LET s == security.riskScore IN
          /\ security.riskLevel = "LOW" <=> (0 <= s /\ s < 25)
          /\ security.riskLevel = "MEDIUM" <=> (25 <= s /\ s < 50)
          /\ security.riskLevel = "HIGH" <=> (50 <= s /\ s < 75)
          /\ security.riskLevel = "CRITICAL" <=> (75 <= s /\ s <= 100)
    /\ auditResult.returned =>
          LET s == auditResult.security.riskScore IN
          /\ auditResult.security.riskLevel = "LOW" <=> (0 <= s /\ s < 25)
          /\ auditResult.security.riskLevel = "MEDIUM" <=> (25 <= s /\ s < 50)
          /\ auditResult.security.riskLevel = "HIGH" <=> (50 <= s /\ s < 75)
          /\ auditResult.security.riskLevel = "CRITICAL" <=> (75 <= s /\ s <= 100)

\* The awaits of analyzeTokenOnChain.
StageOne == {"getTokenInfo", "getScamAnalysis", "isTokenAudited", "getAuditRecord"}

\* data is what the four reads of step 1 return for address a in the current
\* state of the three contracts.
WholeOnChainData(data, a) ==
    /\ data.tokenInfo = analyzedTokens[a]
    /\ \A f \in {"hasHiddenMint", "hasBlacklist", "hasHighTax", "hasLiquidityDrain",
                 "hasOwnershipIssues", "isHoneypot"} :
           data.scamAnalysis[f] = scamAnalysis[a][f]
    /\ data.scamAnalysis.riskScore = toString(scamAnalysis[a].riskScore)
    /\ data.isAudited = (auditRecords[a].auditTimestamp > 0)
    /\ data.auditRecord = IF data.isAudited THEN auditRecords[a] ELSE ZeroAuditRecord

C28_MetadataPreference ==
    [][(pc = "getEnhancedTokenInfo" /\ pc' # pc)
          => IF ~blockchainData.isNull
             THEN /\ tokenInfo'.name = blockchainData.tokenInfo.name
                  /\ tokenInfo'.symbol = blockchainData.tokenInfo.symbol
                  /\ calls' = calls
             ELSE /\ \A f \in MetadataReads :
                        ReadAnswers(contractAddress, f)
                            => tokenInfo'[f] = tokenReads[contractAddress][f]
                  /\ ~ReadAnswers(contractAddress, "name")
                         => tokenInfo'.name = "0x" \o HexOfBytes(contractAddress, 1, 20)
                  /\ ~ReadAnswers(contractAddress, "decimals")
                         => tokenInfo'.decimals = 18]_vars

\* The flags of ScamDetector in the order of the documented issues, and the
\* title of the issue of each.
FlagOrder ==
    <<"hasHiddenMint", "hasBlacklist", "hasHighTax", "hasLiquidityDrain",
      "hasOwnershipIssues">>
IssueTitle ==
    [hasHiddenMint |-> "Hidden Mint Function", hasBlacklist |-> "Blacklist Function",
     hasHighTax |-> "High Tax Functions", hasLiquidityDrain |-> "Liquidity Drain Risk",
     hasOwnershipIssues |-> "Ownership Issues"]

RECURSIVE IssuesFrom(_, _)
\* One issue for each flag of flags that is true, from the i-th flag on.
IssuesFrom(flags, i) ==
    IF i > Len(FlagOrder) THEN <<>>
    ELSE (IF flags[FlagOrder[i]] THEN <<IssueTitle[FlagOrder[i]]>> ELSE <<>>)
         \o IssuesFrom(flags, i + 1)

\* C29: when step 1 produced the heuristic output, the riskScore of the
\* security analysis is the riskScore ScamDetector holds, and its issues are
\* exactly one per flag that is true, in the order hidden mint, blacklist,
\* high tax, liquidity drain, ownership issues; the randomised analysis is
\* used only when step 1 produced nothing.
C29_SecurityFromHeuristics ==
    [][(pc = "performSecurityAnalysis" /\ pc' # pc)
          => IF ~blockchainData.isNull
             THEN /\ security'.riskScore = scamAnalysis[contractAddress].riskScore
                  /\ security'.issues = IssuesFrom(scamAnalysis[contractAddress], 1)
                  /\ security'.source = "scamAnalysis"
             ELSE security'.source = "random"]_vars

\* The security analysis of a token with some flags set and some not, taken
\* from the heuristic output.
C29_Witness ==
    /\ pc = "returned"
    /\ ~blockchainData.isNull
    /\ auditResult.security.source = "scamAnalysis"
    /\ Len(auditResult.security.issues) \in 1..4
    /\ auditResult.security.riskScore = scamAnalysis[contractAddress].riskScore
    /\ auditResult.security.riskScore > 0

\* The optional fields of AuditResult with a feature toggle, and their toggles.
ToggledFields ==
    {<<"aiPrediction", "enableAiRiskPrediction">>,
     <<"socialSentiment", "enableSocialSentiment">>}

\* C30 as stated: each optional enrichment is attached only if its feature
\* toggle is enabled and its fetch succeeded; an enrichment whose fetch fails
\* leaves its field absent.
C30_Original ==
    auditResult.returned =>
        /\ \A e \in ToggledFields :
              auditResult[e[1]] # Absent => (features[e[2]] /\ auditResult[e[1]] = Fetched)
        /\ auditResult.vulnerabilityAnalysis # Absent
              => auditResult.vulnerabilityAnalysis = Fetched

\* C30: aiPrediction and socialSentiment are attached exactly when their
\* feature toggle is enabled, with the value fetched or, when the fetch fails,
\* the fallback value of the service; vulnerabilityAnalysis has no toggle and
\* is attached when the analysis returns, absent when it throws.  Whatever the
\* enrichments do, auditToken returns, with the token information and the
\* security analysis it computed.
C30_EnrichmentsAttached ==
    /\ pc = "returned" => auditResult.returned
    /\ auditResult.returned =>
          /\ \A e \in ToggledFields :
                /\ features[e[2]] => auditResult[e[1]] \in {Fetched, Fallback}
                /\ ~features[e[2]] => auditResult[e[1]] = Absent
          /\ auditResult.vulnerabilityAnalysis \in {Fetched, Absent}
          /\ auditResult.tokenInfo = tokenInfo
          /\ auditResult.security = security

\* With only the AI toggle enabled and the fetch of the prediction failing,
\* the fallback prediction is attached, the sentiment is absent and the
\* vulnerability analysis is attached.
C30_Witness ==
    /\ auditResult.returned
    /\ features.enableAiRiskPrediction
    /\ ~features.enableSocialSentiment
    /\ auditResult.aiPrediction = Fallback
    /\ auditResult.socialSentiment = Absent
    /\ auditResult.vulnerabilityAnalysis = Fetched

C35_KnownScamReportedCritical ==
    auditResult.returned =>
        /\ (knownScams[contractAddress] /\ scamLast.op = "analyzeToken"
                /\ scamLast.token = contractAddress)
              => /\ auditResult.security.riskScore = 100
                 /\ auditResult.security.riskLevel = "CRITICAL"
                 /\ auditResult.security.honeypotStatus
        /\ scamAnalysis[contractAddress].isHoneypot
              => auditResult.security.riskLevel # "LOW"

\* C36: when the wallet connected is an authorized auditor's and the registry
\* answers, then after auditToken(A) returns for a non-zero address A the
\* registry holds an audit record of A written by that call, for every risk
\* score the analysis can compute.
C36_AuthorizedAuditIsRecorded ==
    (pc = "returned" /\ signer # ZeroAddress /\ Authorized(signer)
        /\ contractAddress # ZeroAddress)
       => /\ isTokenAudited(contractAddress)
          /\ last = Call("submitAuditResult", signer, OK)
          /\ getAuditRecord(contractAddress).auditor = signer
          /\ getAuditRecord(contractAddress).riskScore = auditResult.security.riskScore

\* The records a single successful submission stores: one of another client,
\* or the one of auditToken.
SubmissionRecords ==
    {[tokenAddress |-> t, riskScore |-> x[1], isScam |-> x[2], isHoneypot |-> x[3],
      auditTimestamp |-> ts, auditor |-> s, ipfsHash |-> x[4]] :
        s \in Senders, t \in Tokens, x \in AuditSamples, ts \in Times}
    \cup {[tokenAddress |-> contractAddress, riskScore |-> security.riskScore,
           isScam |-> (security.riskLevel = "CRITICAL"), isHoneypot |-> ~security.canSell,
           auditTimestamp |-> ts, auditor |-> signer, ipfsHash |-> ""] : ts \in Times}

\* r is the whole of what one successful submission for t stored: its fields
\* are those of one submission, and the registry logged that submission.
IsOneSubmission(r, t) ==
    /\ r \in SubmissionRecords
    /\ r.tokenAddress = t
    /\ \E i \in SubmissionsFor(t) :
          events[i] = AuditCompleted(t, r.auditor, r.riskScore, r.isScam,
                                     r.auditTimestamp)

\* C33: reads concurrent with writes never observe a partial record.
\* getAuditRecord(t) is the zero record or the whole of what one successful
\* submission stored, never a mix of two; so whenever analyzeTokenOnChain
\* returns isAudited = true, the auditRecord it returns is a whole record with
\* a non-zero timestamp, even when other submissions for the token come
\* between its isTokenAudited read and its getAuditRecord read.
C33_ReadsSeeWholeRecords ==
    /\ \A t \in Address :
          getAuditRecord(t) = ZeroAuditRecord \/ IsOneSubmission(getAuditRecord(t), t)
    /\ onChain.isAudited => isTokenAudited(contractAddress)
    /\ (~blockchainData.isNull /\ blockchainData.isAudited)
          => /\ blockchainData.auditRecord # ZeroAuditRecord
             /\ blockchainData.auditRecord.auditTimestamp > 0
             /\ IsOneSubmission(blockchainData.auditRecord, contractAddress)

\* analyzeTokenOnChain returned the record of the second submission for the
\* token, made in a later block than the first and different in every field,
\* and auditToken has not written yet.
C33_Witness ==
    /\ pc = "getEnhancedTokenInfo"
    /\ blockchainData.isAudited
    /\ Len(events) = 2
    /\ blockchainData.auditRecord.riskScore = events[2].riskScore
    /\ blockchainData.auditRecord.auditTimestamp = events[2].timestamp
    /\ events[1].timestamp < events[2].timestamp
    /\ events[1].riskScore # events[2].riskScore
    /\ last = Call("submitAuditResult", Deployer, OK)

\* C37: what auditToken writes back agrees with what it returns.  When its
\* submitAuditResult succeeded, the stored record has the riskScore returned,
\* isScam = (riskLevel = CRITICAL) and isHoneypot = not canSell; when its
\* updateTokenMetrics succeeded, the stored totalTransactions, uniqueHolders,
\* liquidityUSD and liquidityLocked are the totalTransactions and
\* uniqueHolders of the transactions returned and the totalLiquidity and
\* liquidityLocked of the liquidity returned.
C37_WriteBackAgreesWithResult ==
    auditResult.returned =>
        /\ last = Call("submitAuditResult", signer, OK)
              => /\ getAuditRecord(contractAddress).riskScore
                        = auditResult.security.riskScore
                 /\ getAuditRecord(contractAddress).isScam
                        = (auditResult.security.riskLevel = "CRITICAL")
                 /\ getAuditRecord(contractAddress).isHoneypot
                        = ~auditResult.security.canSell
        /\ MetricsUpdatesFor(contractAddress) # {}
              => /\ getTokenMetrics(contractAddress).totalTransactions
                        = auditResult.transactions.totalTransactions
                 /\ getTokenMetrics(contractAddress).uniqueHolders
                        = auditResult.transactions.uniqueHolders
                 /\ toString(getTokenMetrics(contractAddress).liquidityUSD)
                        = auditResult.liquidity.totalLiquidity
                 /\ getTokenMetrics(contractAddress).liquidityLocked
                        = auditResult.liquidity.liquidityLocked

\* C38: auditToken(A) has a bounded write footprint.  Of the state of the
\* contracts it changes only the audit record of A, the metrics of A and the
\* audit count of the signer, and the events it logs are about A; it never
\* changes who is authorized, the token records and scam flags stored by the
\* two analysers (it calls neither analyzeToken), the override lists, or a
\* record of another token.  With no wallet connected it sends no
\* transaction and the registry is unchanged.
C38_BoundedWriteFootprint ==
    [][/\ UNCHANGED <<owner, authorizedAuditors, detector, scamLast, analyzer,
                      analyzerLast>>
       /\ \A t \in Address \ {contractAddress'} :
              /\ getAuditRecord(t)' = getAuditRecord(t)
              /\ getTokenMetrics(t)' = getTokenMetrics(t)
       /\ \A a \in Address \ {signer} : getAuditorStats(a)' = getAuditorStats(a)
       /\ \A i \in DOMAIN events' \ DOMAIN events : events'[i].token = contractAddress
       /\ signer = ZeroAddress
              => /\ UNCHANGED <<registry, last>>
                 /\ calls'.updateTokenMetrics = 0
                 /\ calls'.submitAuditResult = 0]_vars

\* auditToken returned after both of its transactions were accepted, for a
\* token both analysers hold results of: the record and the metrics of the
\* token and the count of the signer were written.
C38_Witness ==
    /\ pc = "returned"
    /\ signer # ZeroAddress
    /\ last = Call("submitAuditResult", signer, OK)
    /\ getAuditRecord(contractAddress).auditor = signer
    /\ getAuditorStats(signer) > 0
    /\ MetricsUpdatesFor(contractAddress) # {}
    /\ getTokenMetrics(contractAddress) # ZeroTokenMetrics
    /\ getScamAnalysis(contractAddress) # ZeroScamFlags
    /\ getTokenInfo(contractAddress).exists

\* ------------------------------------------------------------------ properties of the stored flags
\* The score documented for the flags f of TokenAnalyzer.
DocumentedRiskScore(f) ==
    20 * Bit(f.hasOwner /\ ~f.ownershipRenounced) + 25 * Bit(f.hasMintFunction)
    + 15 * Bit(f.hasPauseFunction) + 30 * Bit(f.hasBlacklistFunction)
    + 10 * Bit(~f.hasBurnFunction)

SetFlagsInputs == Senders \X Address \X SecurityFlagSamples

\* C39: calculateRiskScore(t) is a function of the flags last stored for t.
\* checkSecurityFlags(t) returns the arguments of the most recent successful
\* setSecurityFlags(t), which only the owner can call and nothing else
\* changes; the score is 20 for an owner that has not renounced, plus 25 for
\* mint, 15 for pause, 30 for blacklist and 10 for no burn function; it lies
\* in 0..100 and is 10 for a token whose flags were never set.
C39_RiskScoreFromStoredFlags ==
    /\ [](\A t \in Address :
             /\ calculateRiskScore(t) = DocumentedRiskScore(checkSecurityFlags(t))
             /\ calculateRiskScore(t) \in 0..100
             /\ checkSecurityFlags(t) = ZeroSecurityFlags => calculateRiskScore(t) = 10)
    /\ [][\A c \in SetFlagsInputs :
             setSecurityFlags(c[1], c[2], c[3])
                => IF c[1] = analyzerOwner
                   THEN /\ checkSecurityFlags(c[2])' = c[3]
                        /\ \A t \in Address \ {c[2]} :
                               checkSecurityFlags(t)' = checkSecurityFlags(t)
                   ELSE /\ securityAnalysis' = securityAnalysis
                        /\ analyzerLast'.result = ErrNotOwner]_vars
    /\ [][securityAnalysis' # securityAnalysis
             => /\ analyzerLast'.op = "setSecurityFlags"
                /\ analyzerLast'.sender = analyzerOwner
                /\ analyzerLast'.result = OK]_vars

\* The owner replaced the flags of a token by those of a renounced owner with
\* pause and blacklist functions: the score is 45.
C39_Witness ==
    /\ analyzerLast.op = "setSecurityFlags"
    /\ analyzerLast.result = OK
    /\ checkSecurityFlags(TokenContract).hasOwner
    /\ checkSecurityFlags(TokenContract).ownershipRenounced
    /\ calculateRiskScore(TokenContract) = 45

\* ------------------------------------------------------------------ properties of the override lists
\* C40: membership of the two lists is asymmetric.  A token in trustedTokens
\* stays there in every later state, while the owner's removeFromScamList
\* takes a token out of knownScams; removeFromScamList never changes
\* trustedTokens and addTrustedToken never changes knownScams; and none of
\* addKnownScam, addTrustedToken and removeFromScamList changes a stored
\* analysis: getScamAnalysis returns what the last analyzeToken stored.
C40_ListMembershipAsymmetric ==
    /\ [][\A t \in Address : trustedTokens[t] => trustedTokens'[t]]_vars
    /\ [][/\ scamLast'.op = "removeFromScamList"
                => /\ trustedTokens' = trustedTokens
                   /\ scamAnalysis' = scamAnalysis
                   /\ scamLast'.sender = scamOwner => ~knownScams'[scamLast'.token]
          /\ scamLast'.op = "addTrustedToken"
                => /\ knownScams' = knownScams
                   /\ scamAnalysis' = scamAnalysis
          /\ scamLast'.op = "addKnownScam"
                => /\ trustedTokens' = trustedTokens
                   /\ scamAnalysis' = scamAnalysis]_vars
    /\ [][\A t \in Address :
             getScamAnalysis(t)' # getScamAnalysis(t)
                => /\ scamLast'.op = "analyzeToken"
                   /\ scamLast'.token = t
                   /\ scamLast'.result = OK
                   /\ scamLast'.flags = getScamAnalysis(t)']_vars

\* A token that is trusted and was a known scam when it was analysed has been
\* taken off the scam list: it is still trusted, and its stored analysis is
\* still the one of a known scam.
C40_Witness ==
    /\ scamLast.op = "removeFromScamList"
    /\ scamLast.result = OK
    /\ ~knownScams[scamLast.token]
    /\ trustedTokens[scamLast.token]
    /\ getScamAnalysis(scamLast.token) = KnownScamFlags

\* ------------------------------------------------------------------ properties of the awaits
\* auditToken is over: it returned its result or threw.
AuditTokenOver == pc \in {"returned", "thrown"}

\* C32: auditToken always eventually returns or throws, whichever remote call
\* never answers: no silent upstream blocks it forever.
C32_AlwaysEventuallyReturns == <>AuditTokenOver

\* ------------------------------------------------------------------ properties of the call chain
\* A call of submitAuditResult is in progress.
SubmitInProgress == \E i \in DOMAIN frames : frames[i].op = "submitAuditResult"

\* C34: while a call of submitAuditResult is in progress no call of
\* submitAuditResult or updateTokenMetrics starts in its call chain, and at
\* most one write of the registry is in progress at any time.
C34_NoWriteInsideAWrite ==
    /\ [](Len(frames) <= 1)
    /\ [](SubmitInProgress <=> status = ENTERED)
    /\ [][SubmitInProgress => Len(frames') <= Len(frames)]_vars

\* A submission by an authorized auditor is in progress, after a write that
\* has returned.
C34_Witness ==
    /\ SubmitInProgress
    /\ status = ENTERED
    /\ last.result = OK /\ last.op \in {"submitAuditResult", "updateTokenMetrics"}

====
